---- MODULE Spec2Model ----
(***************************************************************************)
(* Model of repokit: the name validator (src/utils/validation.js), the     *)
(* version-control and hosting-provider adapters (src/utils/git.js,        *)
(* src/utils/github.js), the SSH identity lister (src/utils/ssh.js) and    *)
(* the provisioning workflow initCommand (src/commands/init.js).           *)
(*                                                                         *)
(* Strings are sequences of one-character strings; the fixed parts of a    *)
(* command-line template are kept as single elements.                      *)
(***************************************************************************)
EXTENDS Integers, Sequences, FiniteSets, TLC

\* null / undefined of a string-valued expression
NULL == <<"<null>">>
UNDEFINED == <<"<undefined>">>
Num(d) == <<"<number>", d>>

\* typeof v === 'string'
IsString(v) == v = <<>> \/ Head(v) \notin {"<null>", "<undefined>", "<number>"}

\* ------------------------------------------------------------------------
\* Bounds of the model
\* ------------------------------------------------------------------------
\* longest short string handed to the validator
MaxLen == 3
\* longest padding put around a string of about MAX_PROJECT_NAME_LENGTH
PadLen == 1

\* ------------------------------------------------------------------------
\* Strings
\* ------------------------------------------------------------------------
\* characters the inputs are built from: a letter, the two restricted
\* leading characters, two whitespace characters and a shell metacharacter
Alphabet == {"a", ".", "-", " ", "\n", "$"}

Lower == {"a","b","c","d","e","f","g","h","i","j","k","l","m",
          "n","o","p","q","r","s","t","u","v","w","x","y","z"}
Upper == {"A","B","C","D","E","F","G","H","I","J","K","L","M",
          "N","O","P","Q","R","S","T","U","V","W","X","Y","Z"}
Digit == {"0","1","2","3","4","5","6","7","8","9"}

\* whitespace removed by String.prototype.trim
WhiteSpace == {" ", "\t", "\n", "\r", "\f"}

Strings(n) == UNION {[1..k -> Alphabet] : k \in 0..n}

Rep(c, n) == [i \in 1..n |-> c]

RECURSIVE TrimLeft(_)
TrimLeft(s) ==
  IF s # <<>> /\ Head(s) \in WhiteSpace THEN TrimLeft(Tail(s)) ELSE s

RECURSIVE TrimRight(_)
TrimRight(s) ==
  IF s # <<>> /\ s[Len(s)] \in WhiteSpace
  THEN TrimRight(SubSeq(s, 1, Len(s) - 1)) ELSE s

trim(s) == TrimRight(TrimLeft(s))

startsWith(s, c) == s # <<>> /\ Head(s) = c

\* s.includes('..')
includesDotDot(s) == \E i \in 1..(Len(s) - 1) : s[i] = "." /\ s[i + 1] = "."

\* ------------------------------------------------------------------------
\* src/utils/validation.js
\* ------------------------------------------------------------------------
MAX_PROJECT_NAME_LENGTH == 100

\* the character class of VALID_NAME_PATTERN
ValidChars == Lower \cup Upper \cup Digit \cup {".", "_", "-"}

\* /^[a-zA-Z0-9._-]+$/.test(s)
VALID_NAME_PATTERN(s) == s # <<>> /\ \A i \in 1..Len(s) : s[i] \in ValidChars

Throw(m) == [ok |-> FALSE, value |-> <<>>, msg |-> m]
Return(v) == [ok |-> TRUE, value |-> v, msg |-> ""]

\* validateProjectName with the length test written >= (variant)
validateProjectName_LengthOffByOne(name) ==
  LET trimmedName == trim(name) IN
  IF name = <<>> \/ ~IsString(name) THEN Throw("Project name is required")
  ELSE IF Len(trimmedName) = 0 THEN Throw("Project name cannot be empty")
  ELSE IF Len(trimmedName) >= MAX_PROJECT_NAME_LENGTH
    THEN Throw("Project name must be 100 characters or less")
  ELSE IF startsWith(trimmedName, ".")
    THEN Throw("Project name cannot start with a period")
  ELSE IF startsWith(trimmedName, "-")
    THEN Throw("Project name cannot start with a hyphen")
  ELSE IF ~VALID_NAME_PATTERN(trimmedName)
    THEN Throw("Project name can only contain letters, numbers, hyphens, underscores, and periods")
  ELSE IF includesDotDot(trimmedName)
    THEN Throw("Project name cannot contain \"..\"")
  ELSE Return(trimmedName)

\* validateProjectName without the path-traversal test (variant)
validateProjectName_NoDotDot(name) ==
  LET trimmedName == trim(name) IN
  IF name = <<>> \/ ~IsString(name) THEN Throw("Project name is required")
  ELSE IF Len(trimmedName) = 0 THEN Throw("Project name cannot be empty")
  ELSE IF Len(trimmedName) > MAX_PROJECT_NAME_LENGTH
    THEN Throw("Project name must be 100 characters or less")
  ELSE IF startsWith(trimmedName, ".")
    THEN Throw("Project name cannot start with a period")
  ELSE IF startsWith(trimmedName, "-")
    THEN Throw("Project name cannot start with a hyphen")
  ELSE IF ~VALID_NAME_PATTERN(trimmedName)
    THEN Throw("Project name can only contain letters, numbers, hyphens, underscores, and periods")
  ELSE Return(trimmedName)

\* validateProjectName with the '..' test before the pattern test (variant)
validateProjectName_DotDotFirst(name) ==
  LET trimmedName == trim(name) IN
  IF name = <<>> \/ ~IsString(name) THEN Throw("Project name is required")
  ELSE IF Len(trimmedName) = 0 THEN Throw("Project name cannot be empty")
  ELSE IF Len(trimmedName) > MAX_PROJECT_NAME_LENGTH
    THEN Throw("Project name must be 100 characters or less")
  ELSE IF startsWith(trimmedName, ".")
    THEN Throw("Project name cannot start with a period")
  ELSE IF startsWith(trimmedName, "-")
    THEN Throw("Project name cannot start with a hyphen")
  ELSE IF includesDotDot(trimmedName)
    THEN Throw("Project name cannot contain \"..\"")
  ELSE IF ~VALID_NAME_PATTERN(trimmedName)
    THEN Throw("Project name can only contain letters, numbers, hyphens, underscores, and periods")
  ELSE Return(trimmedName)

validateProjectName(name) ==
  LET trimmedName == trim(name) IN
  IF name = <<>> \/ ~IsString(name) THEN Throw("Project name is required")
  ELSE IF Len(trimmedName) = 0 THEN Throw("Project name cannot be empty")
  ELSE IF Len(trimmedName) > MAX_PROJECT_NAME_LENGTH
    THEN Throw("Project name must be 100 characters or less")
  ELSE IF startsWith(trimmedName, ".")
    THEN Throw("Project name cannot start with a period")
  ELSE IF startsWith(trimmedName, "-")
    THEN Throw("Project name cannot start with a hyphen")
  ELSE IF ~VALID_NAME_PATTERN(trimmedName)
    THEN Throw("Project name can only contain letters, numbers, hyphens, underscores, and periods")
  ELSE IF includesDotDot(trimmedName)
    THEN Throw("Project name cannot contain \"..\"")
  ELSE Return(trimmedName)

validateGitHubName(name) == validateProjectName(name)

\* ------------------------------------------------------------------------
\* JavaScript values and JSON
\*
\* A string is a sequence of tokens, null is NULL, undefined is UNDEFINED,
\* the number d is Num(d).  An object is a sequence of <<key, value>> pairs
\* in insertion order, with keys that are strings and values that are not
\* objects.
\* ------------------------------------------------------------------------
Has(o, k) == \E i \in 1..Len(o) : o[i][1] = k
Get(o, k) ==
  IF Has(o, k) THEN o[CHOOSE i \in 1..Len(o) : o[i][1] = k][2] ELSE UNDEFINED
\* o[k] = v
Put(o, k, v) ==
  IF Has(o, k)
  THEN [i \in 1..Len(o) |-> IF o[i][1] = k THEN <<k, v>> ELSE o[i]]
  ELSE Append(o, <<k, v>>)

\* { ...target, ...entries }
RECURSIVE Spread(_, _)
Spread(target, entries) ==
  IF entries = <<>> THEN target
  ELSE Spread(Put(target, Head(entries)[1], Head(entries)[2]), Tail(entries))

\* JSON text is a sequence of tokens: the punctuation { } : , " \, the
\* word null, a digit, whitespace, and the characters of string literals
JsonWs == {" ", "\n", "\t", "\r"}

escapeChar(c) ==
  IF c = "\"" THEN <<"\\", "\"">>
  ELSE IF c = "\\" THEN <<"\\", "\\">>
  ELSE IF c = "\n" THEN <<"\\", "n">>
  ELSE IF c = "\t" THEN <<"\\", "t">>
  ELSE IF c = "\r" THEN <<"\\", "r">>
  ELSE <<c>>

RECURSIVE escape(_)
escape(str) ==
  IF str = <<>> THEN <<>> ELSE escapeChar(Head(str)) \o escape(Tail(str))

quote(str) == (<<"\"">> \o escape(str)) \o <<"\"">>

stringifyValue(v) ==
  IF v = NULL THEN <<"null">>
  ELSE IF ~IsString(v) THEN <<v[2]>>
  ELSE quote(v)

\* the members of an object, from the i-th on, at indentation 2
RECURSIVE stringifyMembers(_, _)
stringifyMembers(o, first) ==
  IF o = <<>> THEN <<>>
  ELSE IF Head(o)[2] = UNDEFINED THEN stringifyMembers(Tail(o), first)
  ELSE (((IF first THEN <<>> ELSE <<",">>) \o <<"\n", " ", " ">>)
         \o quote(Head(o)[1]) \o <<":", " ">> \o stringifyValue(Head(o)[2]))
       \o stringifyMembers(Tail(o), FALSE)

\* JSON.stringify(o, null, 2)
JSONstringify(o) ==
  LET members == stringifyMembers(o, TRUE)
  IN IF members = <<>> THEN <<"{", "}">>
     ELSE (<<"{">> \o members) \o <<"\n", "}">>

RECURSIVE skipWs(_)
skipWs(t) == IF t # <<>> /\ Head(t) \in JsonWs THEN skipWs(Tail(t)) ELSE t

ParseError == [ok |-> FALSE, kind |-> "error", val |-> <<>>, obj |-> <<>>, rest |-> <<>>]
Parsed(kind, val, obj, rest) ==
  [ok |-> TRUE, kind |-> kind, val |-> val, obj |-> obj, rest |-> rest]

\* the rest of a string literal after its opening quote
RECURSIVE readString(_, _)
readString(t, acc) ==
  IF t = <<>> THEN ParseError
  ELSE IF Head(t) = "\"" THEN Parsed("string", acc, <<>>, Tail(t))
  ELSE IF Head(t) = "\\" THEN
    IF Len(t) < 2 THEN ParseError
    ELSE IF t[2] \in {"\"", "\\", "/"}
      THEN readString(SubSeq(t, 3, Len(t)), Append(acc, t[2]))
    ELSE IF t[2] = "n" THEN readString(SubSeq(t, 3, Len(t)), Append(acc, "\n"))
    ELSE IF t[2] = "t" THEN readString(SubSeq(t, 3, Len(t)), Append(acc, "\t"))
    ELSE IF t[2] = "r" THEN readString(SubSeq(t, 3, Len(t)), Append(acc, "\r"))
    ELSE ParseError
  ELSE IF Head(t) \in {"\n", "\t", "\r"} THEN ParseError
  ELSE readString(Tail(t), Append(acc, Head(t)))

\* a value that is not an object
parseScalar(t0) ==
  LET t == skipWs(t0) IN
  IF t = <<>> THEN ParseError
  ELSE IF Head(t) = "null" THEN Parsed("null", NULL, <<>>, Tail(t))
  ELSE IF Head(t) \in Digit THEN Parsed("number", Num(Head(t)), <<>>, Tail(t))
  ELSE IF Head(t) = "\"" THEN readString(Tail(t), <<>>)
  ELSE ParseError

\* the members of an object after its opening brace or after a comma
RECURSIVE readMembers(_, _)
readMembers(t0, acc) ==
  LET t == skipWs(t0) IN
  IF t = <<>> \/ Head(t) # "\"" THEN ParseError
  ELSE LET k == readString(Tail(t), <<>>) IN
    IF ~k.ok THEN ParseError
    ELSE LET t1 == skipWs(k.rest) IN
      IF t1 = <<>> \/ Head(t1) # ":" THEN ParseError
      ELSE LET v == parseScalar(Tail(t1)) IN
        IF ~v.ok THEN ParseError
        ELSE LET t2 == skipWs(v.rest)
                 acc2 == Put(acc, k.val, v.val)
             IN IF t2 = <<>> THEN ParseError
                ELSE IF Head(t2) = "," THEN readMembers(Tail(t2), acc2)
                ELSE IF Head(t2) = "}" THEN Parsed("object", <<>>, acc2, Tail(t2))
                ELSE ParseError

parseValue(t0) ==
  LET t == skipWs(t0) IN
  IF t # <<>> /\ Head(t) = "{" THEN
    LET t1 == skipWs(Tail(t)) IN
    IF t1 # <<>> /\ Head(t1) = "}" THEN Parsed("object", <<>>, <<>>, Tail(t1))
    ELSE readMembers(t1, <<>>)
  ELSE parseScalar(t)

\* JSON.parse(text): ok = FALSE when it throws
JSONparse(text) ==
  LET r == parseValue(text) IN
  IF r.ok /\ skipWs(r.rest) = <<>> THEN r ELSE ParseError

\* the own enumerable properties a spread copies from a parsed value
OwnEntries(r) ==
  IF r.kind = "object" THEN r.obj
  ELSE IF r.kind = "string"
    THEN [i \in 1..Len(r.val) |-> <<<<ToString(i - 1)>>, <<r.val[i]>>>>]
  ELSE <<>>

\* ------------------------------------------------------------------------
\* config.js (preference store)
\* ------------------------------------------------------------------------
K_ORG == <<"defaultOrg">>
K_VIS == <<"defaultVisibility">>
PUBLIC == <<"public">>
PRIVATE == <<"private">>

DEFAULT_CONFIG == << <<K_ORG, NULL>>, <<K_VIS, PRIVATE>> >>

\* the preference file: [state |-> "missing" | "unreadable" | "present",
\* content |-> its text]
MissingFile == [state |-> "missing", content |-> <<>>]
FileWith(text) == [state |-> "present", content |-> text]

\* loadConfig without the defaults under the stored fields (variant)
loadConfig_NoDefaults(file) ==
  IF file.state = "missing" THEN DEFAULT_CONFIG
  ELSE IF file.state = "unreadable" THEN DEFAULT_CONFIG
  ELSE LET userConfig == JSONparse(file.content) IN
       IF ~userConfig.ok THEN DEFAULT_CONFIG
       ELSE Spread(<<>>, OwnEntries(userConfig))

loadConfig(file) ==
  IF file.state = "missing" THEN DEFAULT_CONFIG
  ELSE IF file.state = "unreadable" THEN DEFAULT_CONFIG
  ELSE LET userConfig == JSONparse(file.content) IN
       IF ~userConfig.ok THEN DEFAULT_CONFIG
       ELSE Spread(DEFAULT_CONFIG, OwnEntries(userConfig))

\* the text saveConfig writes
saveConfig(cfg) == JSONstringify(cfg)

\* ------------------------------------------------------------------------
\* src/utils/ssh.js
\* ------------------------------------------------------------------------
HOME == "/home/u"

\* a line of the SSH configuration: [kw |-> "Host" | "HostName" |
\* "IdentityFile" | "Other", val |-> the captured value, a token sequence]
NoHost == [host |-> NULL, name |-> NULL, identityFile |-> NULL, isGitHub |-> FALSE]

\* hostValue.includes('github.com')
includesGitHub(v) == \E i \in 1..Len(v) : v[i] = "github.com"

\* String.prototype.replace('~', homedir()): the first occurrence only
RECURSIVE replaceTilde(_)
replaceTilde(v) ==
  IF v = <<>> THEN <<>>
  ELSE IF Head(v) = "~" THEN <<HOME>> \o Tail(v)
  ELSE <<Head(v)>> \o replaceTilde(Tail(v))

\* the keywords as /^Host\s+(.+)$/i and its like accept them
HostKw == {"Host", "host", "HOST"}
HostNameKw == {"HostName", "hostname", "HOSTNAME"}
IdentityFileKw == {"IdentityFile", "identityfile", "IDENTITYFILE"}

RECURSIVE skipSpace(_)
skipSpace(t) ==
  IF t # <<>> /\ Head(t) \in WhiteSpace THEN skipSpace(Tail(t)) ELSE t

\* trimmed.match(/^<keyword>\s+(.+)$/i): the captured group, <<>> when the
\* line does not match
matchKeyword(trimmed, kw) ==
  IF Len(trimmed) >= 2 /\ trimmed[1] \in kw /\ trimmed[2] \in WhiteSpace
  THEN skipSpace(Tail(trimmed)) ELSE <<>>

\* a raw line (a token sequence) as the loop body reads it
lexLine(raw) ==
  LET trimmed == trim(raw)
      hostMatch == matchKeyword(trimmed, HostKw)
      hostNameMatch == matchKeyword(trimmed, HostNameKw)
      identityMatch == matchKeyword(trimmed, IdentityFileKw)
  IN IF hostMatch # <<>> THEN [kw |-> "Host", val |-> hostMatch]
     ELSE IF hostNameMatch # <<>> THEN [kw |-> "HostName", val |-> hostNameMatch]
     ELSE IF identityMatch # <<>> THEN [kw |-> "IdentityFile", val |-> identityMatch]
     ELSE [kw |-> "Other", val |-> <<>>]

\* content.split('\n') read line by line
lexLines(raws) == [i \in 1..Len(raws) |-> lexLine(raws[i])]

\* one iteration of the loop over the lines; st = [hosts, open, cur]
parseLine(st, line) ==
  IF line.kw = "Host" THEN
    [hosts |-> IF st.open /\ st.cur.isGitHub
               THEN Append(st.hosts, st.cur) ELSE st.hosts,
     open |-> TRUE,
     cur |-> [host |-> line.val, name |-> line.val, identityFile |-> NULL,
              isGitHub |-> includesGitHub(line.val)]]
  ELSE IF ~st.open THEN st
  ELSE IF line.kw = "HostName" THEN
    IF line.val = <<"github.com">>
    THEN [st EXCEPT !.cur.isGitHub = TRUE] ELSE st
  ELSE IF line.kw = "IdentityFile" THEN
    [st EXCEPT !.cur.identityFile = replaceTilde(line.val)]
  ELSE st

RECURSIVE parseLines(_, _)
parseLines(st, lines) ==
  IF lines = <<>> THEN st
  ELSE parseLines(parseLine(st, Head(lines)), Tail(lines))

friendlyName(host) ==
  IF Len(host) >= 2 /\ host[1] = "github.com" /\ host[2] = "-"
  THEN SubSeq(host, 3, Len(host))
  ELSE IF host = <<"github.com">> THEN <<"default">>
  ELSE host

\* getGitHubSSHKeys that does not flush the last open block (variant)
getGitHubSSHKeys_NoLastFlush(lines) ==
  LET st == parseLines([hosts |-> <<>>, open |-> FALSE, cur |-> NoHost], lines)
      hosts == st.hosts
  IN [i \in 1..Len(hosts) |->
        [name |-> friendlyName(hosts[i].host),
         host |-> hosts[i].host,
         identityFile |-> hosts[i].identityFile]]

\* the list returned for a readable configuration made of these lines
getGitHubSSHKeys(lines) ==
  LET st == parseLines([hosts |-> <<>>, open |-> FALSE, cur |-> NoHost], lines)
      hosts == IF st.open /\ st.cur.isGitHub
               THEN Append(st.hosts, st.cur) ELSE st.hosts
  IN [i \in 1..Len(hosts) |->
        [name |-> friendlyName(hosts[i].host),
         host |-> hosts[i].host,
         identityFile |-> hosts[i].identityFile]]

\* ------------------------------------------------------------------------
\* External commands: what exec() is handed.  cmd is the command line,
\* args the name strings interpolated into it, identity the SSH identity
\* override the command runs with (NULL: none).
\* ------------------------------------------------------------------------
Command(op, cmd, args) == [op |-> op, cmd |-> cmd, args |-> args, identity |-> NULL]

\* a value that is not null, undefined, '' or 0
Truthy(s) == s \notin {NULL, UNDEFINED, <<>>, Num("0")}

\* src/utils/git.js
gitInit == Command("git init", <<"git init">>, <<>>)
gitAddAll == Command("git add", <<"git add -A">>, <<>>)
gitCommit(message) ==
  Command("git commit", <<"git commit -m \"", message, "\"">>, <<>>)
gitAddRemote(url, args) ==
  Command("git remote add", <<"git remote add origin ">> \o url, args)
gitPush(branch) == Command("git push", <<"git push -u origin ", branch>>, <<>>)
gitRenameBranch(newName) ==
  Command("git branch -M", <<"git branch -M ", newName>>, <<>>)

\* src/utils/github.js
whichGh == Command("which gh", <<"which gh">>, <<>>)
ghAuthStatus == Command("gh auth status", <<"gh auth status">>, <<>>)
getGhUsername == Command("gh api user", <<"gh api user --jq .login">>, <<>>)

\* the login printed by `gh api user`
GhUser == <<"u">>

repoExistsFullName(name, org) ==
  IF Truthy(org) THEN org \o <<"/">> \o name ELSE name
ghRepoView(name, org) ==
  Command("gh repo view", <<"gh repo view ">> \o repoExistsFullName(name, org),
          IF Truthy(org) THEN <<org, name>> ELSE <<name>>)

createFullName(name, org, username) ==
  IF Truthy(org) THEN org \o <<"/">> \o name ELSE username \o <<"/">> \o name
\* ghRepoCreate with the options of createRepo (variant)
ghRepoCreate_WithPush(name, isPub, org, username) ==
  Command("gh repo create",
          <<"gh repo create ">> \o createFullName(name, org, username)
             \o <<" ", IF isPub THEN "--public" ELSE "--private">>
             \o <<" ", "--source=.", " ", "--remote=origin", " ", "--push">>,
          IF Truthy(org) THEN <<org, name>> ELSE <<name>>)

ghRepoCreate(name, isPub, org, username) ==
  Command("gh repo create",
          <<"gh repo create ">> \o createFullName(name, org, username)
             \o <<" ", IF isPub THEN "--public" ELSE "--private">>,
          IF Truthy(org) THEN <<org, name>> ELSE <<name>>)
sshUrl(fullName) == <<"git@github.com:">> \o fullName \o <<".git">>

\* src/commands/init.js
readmeContent(name) == <<"# ">> \o name \o <<"\n">>
createReadme(name) == Command("writeFile README.md", readmeContent(name), <<>>)
mkdirSync == Command("mkdir", <<>>, <<>>)

\* ------------------------------------------------------------------------
\* Inputs of the workflow model
\* ------------------------------------------------------------------------
ProjectNames ==
  { <<"a">>, <<" ", "a", "\n">>, <<"a", ".", "a">>,
    <<>>, <<" ">>, <<"-", "a">>, <<"a", "$">>, <<"a", ".", ".">> }

OrgFlags ==
  { NULL, <<>>, <<"o">>, <<"o", " ">>, <<"-", "o">>, <<"o", "$">> }

RcFiles ==
  { MissingFile,
    FileWith(<<"{", "oops">>),
    FileWith(JSONstringify(<< <<K_ORG, <<"p">>>>, <<K_VIS, PUBLIC>> >>)),
    FileWith(JSONstringify(<< <<K_ORG, <<"\n", "p">>>> >>)),
    FileWith(JSONstringify(<< <<K_VIS, PUBLIC>> >>)) }

HostLine(v) == [kw |-> "Host", val |-> v]
HostNameLine(v) == [kw |-> "HostName", val |-> v]
IdentityLine(v) == [kw |-> "IdentityFile", val |-> v]

WorkBlock == << HostLine(<<"github.com", "-", "work">>),
                IdentityLine(<<"~", "/.ssh/work">>) >>
HomeBlock == << HostLine(<<"gh">>), HostNameLine(<<"github.com">>),
                IdentityLine(<<"/keys/home">>) >>
BareBlock == << HostLine(<<"github.com">>) >>
OtherBlock == << HostLine(<<"example.com">>), IdentityLine(<<"~", "/.ssh/other">>) >>

\* [state |-> "missing" | "unreadable" | "ok", lines |-> the lines]
SshConfigs ==
  { [state |-> "missing", lines |-> <<>>],
    [state |-> "unreadable", lines |-> <<>>] }
  \cup { [state |-> "ok", lines |-> l] :
          l \in { <<>>, OtherBlock, WorkBlock, BareBlock,
                  WorkBlock \o OtherBlock \o HomeBlock,
                  BareBlock \o WorkBlock } }

\* ------------------------------------------------------------------------
\* State
\* ------------------------------------------------------------------------
VARIABLES
  argName,              \* the <project-name> argument as typed
  options,              \* the command-line flags of init
  world0,               \* the target directory and remote before the run
  remote0,              \* remoteTaken before the run
  spin,                 \* the progress indicators started, in order
  world,                \* the target directory, its repository and the remote
  remoteTaken,          \* a repository of the resolved full name exists
  pc,                   \* position of initCommand
  config,               \* const config = loadConfig()
  projectName,          \* the local projectName after validation
  isPublic,
  org,
  repoUrl,
  sshKeys,
  selectedIdentityFile,
  log,                  \* external commands and file-system writes, in order
  failedAt,             \* step whose failure handler ran ("none": no failure)
  exitCode,             \* process exit status (-1: still running)
  vInput,               \* validator model: the argument
  vFn,                  \* validator model: the function called ("none" before)
  vResult,              \* validator model: what the call produced
  rcFile,               \* the preference file ~/.repokitrc
  rcFile0,              \* the preference file before the command
  cOptions,             \* the flags of the config command
  cPc,                  \* position of the config command
  cConfig,              \* const config = loadConfig() of the config command
  cExit,                \* exit status of the config command (-1: running)
  pIn,                  \* preference store model: the record handed to saveConfig
  pPc,                  \* preference store model: the calls made so far
  pOut,                 \* preference store model: what loadConfig returned
  sIn,                  \* lister model: the lines of ~/.ssh/config
  sPc,                  \* lister model: "start", then "done"
  sOut                  \* lister model: what getGitHubSSHKeys returned

wfVars == <<argName, options, world0, remote0, spin, world, remoteTaken,
            pc, config, projectName, isPublic, org, repoUrl, sshKeys,
            selectedIdentityFile, log, failedAt, exitCode>>
vVars == <<vInput, vFn, vResult>>
cVars == <<rcFile, rcFile0, cOptions, cPc, cConfig, cExit>>
pVars == <<pIn, pPc, pOut>>
sVars == <<sIn, sPc, sOut>>
vars == <<argName, options, world0, remote0, spin, world, remoteTaken,
          pc, config,
          projectName, isPublic, org, repoUrl, sshKeys,
          selectedIdentityFile, log, failedAt, exitCode,
          vInput, vFn, vResult,
          rcFile, rcFile0, cOptions, cPc, cConfig, cExit,
          pIn, pPc, pOut,
          sIn, sPc, sOut>>

\* the config command and the preference store calls have not been made
ConfigIdle ==
  /\ rcFile = MissingFile
  /\ rcFile0 = MissingFile
  /\ cOptions = [show |-> FALSE, org |-> UNDEFINED, visibility |-> UNDEFINED]
  /\ cPc = "idle"
  /\ cConfig = DEFAULT_CONFIG
  /\ cExit = -1
  /\ pIn = <<>>
  /\ pPc = "idle"
  /\ pOut = <<>>

\* getGitHubSSHKeys has not been called on its own
ListerIdle ==
  /\ sIn = <<>>
  /\ sPc = "idle"
  /\ sOut = <<>>

\* the steps of the workflow, in program order
Steps == <<"validate", "preflight", "safety", "mkdir", "readme", "init",
           "commit", "create", "remote", "select", "push", "report">>
StepIndex(s) == CHOOSE i \in 1..Len(Steps) : Steps[i] = s

\* the target directory before the run: with --here it is the current
\* directory (which exists); without, resolve(cwd, projectName)
EmptyWorld ==
  [dir |-> FALSE, readme |-> NULL, git |-> FALSE, branch |-> "none",
   staged |-> FALSE, commits |-> <<>>, remoteRepo |-> NULL,
   origin |-> NULL, pushed |-> FALSE]

InitialWorlds(here) ==
  IF here
  THEN { [EmptyWorld EXCEPT !.dir = TRUE,
                            !.readme = IF r THEN <<"old">> ELSE NULL,
                            !.git = g,
                            !.branch = IF g THEN "master" ELSE "none"]
         : r \in BOOLEAN, g \in BOOLEAN }
  ELSE { EmptyWorld, [EmptyWorld EXCEPT !.dir = TRUE] }

Init ==
  /\ argName \in ProjectNames
  /\ options \in [public : BOOLEAN, private : BOOLEAN, here : BOOLEAN,
                  force : BOOLEAN, org : OrgFlags]
  /\ world0 \in InitialWorlds(options.here)
  /\ world = world0
  /\ remoteTaken \in BOOLEAN
  /\ remote0 = remoteTaken
  /\ spin = <<>>
  /\ pc = "validate"
  /\ config = DEFAULT_CONFIG
  /\ projectName = NULL
  /\ isPublic = FALSE
  /\ org = NULL
  /\ repoUrl = NULL
  /\ sshKeys = <<>>
  /\ selectedIdentityFile = NULL
  /\ log = <<>>
  /\ failedAt = "none"
  /\ exitCode = -1
  /\ vInput = <<>>
  /\ vFn = "none"
  /\ vResult = Return(<<>>)
  /\ ConfigIdle
  /\ ListerIdle

\* ------------------------------------------------------------------------
\* initCommand (src/commands/init.js)
\* ------------------------------------------------------------------------
Entry(step, c, ok) ==
  [step |-> step, op |-> c.op, cmd |-> c.cmd, args |-> c.args,
   identity |-> c.identity, ok |-> ok]

\* a failure handler: report, then process.exit(1)
Exit1(step) ==
  /\ pc' = "failed"
  /\ failedAt' = step
  /\ exitCode' = 1

\* an exception nothing catches: the promise of the action rejects and the
\* process ends with a non-zero status
Crash ==
  /\ pc' = "crashed"
  /\ exitCode' = 1
  /\ UNCHANGED failedAt

Goto(next) ==
  /\ pc' = next
  /\ UNCHANGED <<failedAt, exitCode>>

\* resolveVisibility that tests --private first (variant)
resolveVisibility_PrivateFirst(opts, cfg) ==
  IF opts.private THEN FALSE
  ELSE IF opts.public THEN TRUE
  ELSE Get(cfg, K_VIS) = PUBLIC

resolveVisibility(opts, cfg) ==
  IF opts.public THEN TRUE
  ELSE IF opts.private THEN FALSE
  ELSE Get(cfg, K_VIS) = PUBLIC

\* options.org ?? config.defaultOrg
resolveOrg(opts, cfg) == IF opts.org # NULL THEN opts.org ELSE Get(cfg, K_ORG)

\* ora(text).start(), .succeed() and .fail(): sp is the sequence of
\* indicators started so far, each [name, state]
oraStart(sp, name) == Append(sp, [name |-> name, state |-> "spinning"])
oraSucceed(sp, name) ==
  [i \in 1..Len(sp) |->
     IF sp[i].name = name THEN [sp[i] EXCEPT !.state = "succeeded"] ELSE sp[i]]
oraFail(sp, name) ==
  [i \in 1..Len(sp) |->
     IF sp[i].name = name THEN [sp[i] EXCEPT !.state = "failed"] ELSE sp[i]]

\* lines 247-296: load the preferences, validate the name, resolve
\* visibility and organization, validate the organization
Validate ==
  /\ pc = "validate"
  /\ \E rc \in RcFiles :
       LET cfg == loadConfig(rc)
           r == validateProjectName(argName)
           o == resolveOrg(options, cfg)
       IN /\ config' = cfg
          /\ IF ~r.ok
             THEN /\ Exit1("validate")
                  /\ UNCHANGED <<projectName, isPublic, org>>
             ELSE /\ projectName' = r.value
                  /\ isPublic' = resolveVisibility(options, cfg)
                  /\ org' = o
                  /\ IF Truthy(o) /\ ~validateGitHubName(o).ok
                     THEN Exit1("validate")
                     ELSE Goto("installed")
  /\ UNCHANGED <<argName, options, world0, remote0, world, remoteTaken, repoUrl,
                 sshKeys, selectedIdentityFile, log, vVars, cVars, pVars, sVars>>
  /\ UNCHANGED spin

\* IsGhInstalled whose failure branch does not exit (variant)
IsGhInstalled_NoExit ==
  /\ pc = "installed"
  /\ \E ok \in BOOLEAN :
       /\ log' = Append(log, Entry("preflight", whichGh, ok))
       /\ Goto("authenticated")
  /\ UNCHANGED <<argName, options, world0, remote0, world, remoteTaken, config,
                 projectName, isPublic, org, repoUrl, sshKeys,
                 selectedIdentityFile, vVars, cVars, pVars, sVars>>
  /\ spin' = IF pc' = "failed" THEN oraFail(oraStart(spin, "preflightSpinner"), "preflightSpinner")
             ELSE oraStart(spin, "preflightSpinner")

\* lines 302-308
IsGhInstalled ==
  /\ pc = "installed"
  /\ \E ok \in BOOLEAN :
       /\ log' = Append(log, Entry("preflight", whichGh, ok))
       /\ IF ok THEN Goto("authenticated") ELSE Exit1("preflight")
  /\ UNCHANGED <<argName, options, world0, remote0, world, remoteTaken, config,
                 projectName, isPublic, org, repoUrl, sshKeys,
                 selectedIdentityFile, vVars, cVars, pVars, sVars>>
  /\ spin' = IF pc' = "failed" THEN oraFail(oraStart(spin, "preflightSpinner"), "preflightSpinner")
             ELSE oraStart(spin, "preflightSpinner")

\* IsGhAuthenticated that exits without failing the indicator (variant)
IsGhAuthenticated_NoFail ==
  /\ pc = "authenticated"
  /\ \E ok \in BOOLEAN :
       /\ log' = Append(log, Entry("preflight", ghAuthStatus, ok))
       /\ IF ok THEN Goto("repoExists") ELSE Exit1("preflight")
  /\ UNCHANGED <<argName, options, world0, remote0, world, remoteTaken, config,
                 projectName, isPublic, org, repoUrl, sshKeys,
                 selectedIdentityFile, vVars, cVars, pVars, sVars>>
  /\ UNCHANGED spin

\* lines 311-317
IsGhAuthenticated ==
  /\ pc = "authenticated"
  /\ \E ok \in BOOLEAN :
       /\ log' = Append(log, Entry("preflight", ghAuthStatus, ok))
       /\ IF ok THEN Goto("repoExists") ELSE Exit1("preflight")
  /\ UNCHANGED <<argName, options, world0, remote0, world, remoteTaken, config,
                 projectName, isPublic, org, repoUrl, sshKeys,
                 selectedIdentityFile, vVars, cVars, pVars, sVars>>
  /\ spin' = IF pc' = "failed" THEN oraFail(spin, "preflightSpinner") ELSE spin

\* lines 320-327: `gh repo view` succeeds only for a repository that
\* exists, and repoExists reduces any failure of it to false
RepoExists ==
  /\ pc = "repoExists"
  /\ \E ok \in (IF remoteTaken THEN BOOLEAN ELSE {FALSE}) :
       /\ log' = Append(log, Entry("preflight", ghRepoView(projectName, org), ok))
       /\ IF ok THEN Exit1("preflight") ELSE Goto("safety")
  /\ UNCHANGED <<argName, options, world0, remote0, world, remoteTaken, config,
                 projectName, isPublic, org, repoUrl, sshKeys,
                 selectedIdentityFile, vVars, cVars, pVars, sVars>>
  /\ spin' = IF pc' = "failed" THEN oraFail(spin, "preflightSpinner") ELSE oraSucceed(spin, "preflightSpinner")

\* SafetyChecks without the README.md test (variant)
SafetyChecks_NoReadmeTest ==
  /\ pc = "safety"
  /\ IF options.here /\ world.git /\ ~options.force THEN Exit1("safety")
     ELSE Goto(IF options.here THEN "readme" ELSE "mkdir")
  /\ UNCHANGED <<argName, options, world0, remote0, world, remoteTaken, config,
                 projectName, isPublic, org, repoUrl, sshKeys,
                 selectedIdentityFile, log, vVars, cVars, pVars, sVars>>
  /\ UNCHANGED spin

\* lines 330-351
SafetyChecks ==
  /\ pc = "safety"
  /\ IF options.here /\ world.git /\ ~options.force THEN Exit1("safety")
     ELSE IF options.here /\ world.readme # NULL /\ ~options.force
       THEN Exit1("safety")
     ELSE Goto(IF options.here THEN "readme" ELSE "mkdir")
  /\ UNCHANGED <<argName, options, world0, remote0, world, remoteTaken, config,
                 projectName, isPublic, org, repoUrl, sshKeys,
                 selectedIdentityFile, log, vVars, cVars, pVars, sVars>>
  /\ UNCHANGED spin

\* CreateDirectory that goes on when the directory exists (variant)
CreateDirectory_NoExistsExit ==
  /\ pc = "mkdir"
  /\ IF world.dir
     THEN /\ Goto("readme")
          /\ UNCHANGED <<world, log>>
     ELSE \E ok \in BOOLEAN :
            /\ log' = Append(log, Entry("mkdir", mkdirSync, ok))
            /\ IF ok
               THEN /\ world' = [world EXCEPT !.dir = TRUE]
                    /\ Goto("readme")
               ELSE /\ UNCHANGED world
                    /\ Exit1("mkdir")
  /\ UNCHANGED <<argName, options, world0, remote0, remoteTaken, config,
                 projectName, isPublic, org, repoUrl, sshKeys,
                 selectedIdentityFile, vVars, cVars, pVars, sVars>>
  /\ spin' = IF pc' = "failed" THEN oraFail(oraStart(spin, "dirSpinner"), "dirSpinner")
             ELSE oraSucceed(oraStart(spin, "dirSpinner"), "dirSpinner")

\* lines 354-369
CreateDirectory ==
  /\ pc = "mkdir"
  /\ IF world.dir
     THEN /\ Exit1("mkdir")
          /\ UNCHANGED <<world, log>>
     ELSE \E ok \in BOOLEAN :
            /\ log' = Append(log, Entry("mkdir", mkdirSync, ok))
            /\ IF ok
               THEN /\ world' = [world EXCEPT !.dir = TRUE]
                    /\ Goto("readme")
               ELSE /\ UNCHANGED world
                    /\ Exit1("mkdir")
  /\ UNCHANGED <<argName, options, world0, remote0, remoteTaken, config,
                 projectName, isPublic, org, repoUrl, sshKeys,
                 selectedIdentityFile, vVars, cVars, pVars, sVars>>
  /\ spin' = IF pc' = "failed" THEN oraFail(oraStart(spin, "dirSpinner"), "dirSpinner")
             ELSE oraSucceed(oraStart(spin, "dirSpinner"), "dirSpinner")

\* lines 372-379
WriteReadme ==
  /\ pc = "readme"
  /\ \E ok \in BOOLEAN :
       /\ log' = Append(log, Entry("readme", createReadme(projectName), ok))
       /\ IF ok
          THEN /\ world' = [world EXCEPT !.readme = readmeContent(projectName)]
               /\ Goto("gitInit")
          ELSE /\ UNCHANGED world
               /\ Exit1("readme")
  /\ UNCHANGED <<argName, options, world0, remote0, remoteTaken, config,
                 projectName, isPublic, org, repoUrl, sshKeys,
                 selectedIdentityFile, vVars, cVars, pVars, sVars>>
  /\ spin' = IF pc' = "failed" THEN oraFail(oraStart(spin, "readmeSpinner"), "readmeSpinner")
             ELSE oraSucceed(oraStart(spin, "readmeSpinner"), "readmeSpinner")

\* GitInit that does not test for an existing repository (variant)
GitInit_Always ==
  /\ pc = "gitInit"
  /\ \E ok \in BOOLEAN :
       /\ log' = Append(log, Entry("init", gitInit, ok))
       /\ IF ok
          THEN /\ world' = [world EXCEPT !.git = TRUE, !.branch = "master"]
               /\ Goto("rename")
          ELSE /\ UNCHANGED world
               /\ Exit1("init")
  /\ UNCHANGED <<argName, options, world0, remote0, remoteTaken, config,
                 projectName, isPublic, org, repoUrl, sshKeys,
                 selectedIdentityFile, vVars, cVars, pVars, sVars>>
  /\ spin' = IF pc' = "failed" THEN oraFail(oraStart(spin, "gitSpinner"), "gitSpinner")
             ELSE oraStart(spin, "gitSpinner")

\* lines 384-386
GitInit ==
  /\ pc = "gitInit"
  /\ IF world.git
     THEN /\ Goto("rename")
          /\ UNCHANGED <<world, log>>
     ELSE \E ok \in BOOLEAN :
            /\ log' = Append(log, Entry("init", gitInit, ok))
            /\ IF ok
               THEN /\ world' = [world EXCEPT !.git = TRUE, !.branch = "master"]
                    /\ Goto("rename")
               ELSE /\ UNCHANGED world
                    /\ Exit1("init")
  /\ UNCHANGED <<argName, options, world0, remote0, remoteTaken, config,
                 projectName, isPublic, org, repoUrl, sshKeys,
                 selectedIdentityFile, vVars, cVars, pVars, sVars>>
  /\ spin' = IF pc' = "failed" THEN oraFail(oraStart(spin, "gitSpinner"), "gitSpinner")
             ELSE oraStart(spin, "gitSpinner")

\* lines 387-392
GitRenameBranch ==
  /\ pc = "rename"
  /\ \E ok \in BOOLEAN :
       /\ log' = Append(log, Entry("init", gitRenameBranch("main"), ok))
       /\ IF ok
          THEN /\ world' = [world EXCEPT !.branch = "main"]
               /\ Goto("addAll")
          ELSE /\ UNCHANGED world
               /\ Exit1("init")
  /\ UNCHANGED <<argName, options, world0, remote0, remoteTaken, config,
                 projectName, isPublic, org, repoUrl, sshKeys,
                 selectedIdentityFile, vVars, cVars, pVars, sVars>>
  /\ spin' = IF pc' = "failed" THEN oraFail(spin, "gitSpinner") ELSE oraSucceed(spin, "gitSpinner")

\* line 397
GitAddAll ==
  /\ pc = "addAll"
  /\ \E ok \in BOOLEAN :
       /\ log' = Append(log, Entry("commit", gitAddAll, ok))
       /\ IF ok
          THEN /\ world' = [world EXCEPT !.staged = TRUE]
               /\ Goto("commit")
          ELSE /\ UNCHANGED world
               /\ Exit1("commit")
  /\ UNCHANGED <<argName, options, world0, remote0, remoteTaken, config,
                 projectName, isPublic, org, repoUrl, sshKeys,
                 selectedIdentityFile, vVars, cVars, pVars, sVars>>
  /\ spin' = IF pc' = "failed" THEN oraFail(oraStart(spin, "commitSpinner"), "commitSpinner")
             ELSE oraStart(spin, "commitSpinner")

\* GitCommit whose catch block reports the failure but does not exit (variant)
GitCommit_NoExit ==
  /\ pc = "commit"
  /\ \E ok \in BOOLEAN :
       /\ log' = Append(log, Entry("commit", gitCommit("Initial commit"), ok))
       /\ IF ok
          THEN /\ world' = [world EXCEPT !.staged = FALSE,
                              !.commits = Append(@, "Initial commit")]
               /\ Goto("createRepo")
          ELSE /\ UNCHANGED <<world, exitCode>>
               /\ failedAt' = "commit"
               /\ pc' = "createRepo"
  /\ UNCHANGED <<argName, options, world0, remote0, remoteTaken, config,
                 projectName, isPublic, org, repoUrl, sshKeys,
                 selectedIdentityFile, vVars, cVars, pVars, sVars>>
  /\ spin' = IF pc' = "failed" THEN oraFail(spin, "commitSpinner") ELSE oraSucceed(spin, "commitSpinner")

\* lines 398-403
GitCommit ==
  /\ pc = "commit"
  /\ \E ok \in BOOLEAN :
       /\ log' = Append(log, Entry("commit", gitCommit("Initial commit"), ok))
       /\ IF ok
          THEN /\ world' = [world EXCEPT !.staged = FALSE,
                              !.commits = Append(@, "Initial commit")]
               /\ Goto("createRepo")
          ELSE /\ UNCHANGED world
               /\ Exit1("commit")
  /\ UNCHANGED <<argName, options, world0, remote0, remoteTaken, config,
                 projectName, isPublic, org, repoUrl, sshKeys,
                 selectedIdentityFile, vVars, cVars, pVars, sVars>>
  /\ spin' = IF pc' = "failed" THEN oraFail(spin, "commitSpinner") ELSE oraSucceed(spin, "commitSpinner")

\* CreateRepo that goes on when the creation command fails (variant)
CreateRepo_NoExit ==
  /\ pc = "createRepo"
  /\ \E uok \in (IF Truthy(org) THEN {TRUE} ELSE BOOLEAN),
        ok \in (IF remoteTaken THEN {FALSE} ELSE BOOLEAN) :
       LET lookup == IF Truthy(org) THEN <<>>
                     ELSE <<Entry("create", getGhUsername, uok)>>
           fullName == createFullName(projectName, org, GhUser)
           create == Entry("create",
                           ghRepoCreate(projectName, isPublic, org, GhUser), ok)
       IN IF ~uok
          THEN /\ log' = log \o lookup
               /\ Exit1("create")
               /\ UNCHANGED <<world, remoteTaken, repoUrl>>
          ELSE /\ log' = (log \o lookup) \o <<create>>
               /\ IF ok
                  THEN /\ world' = [world EXCEPT !.remoteRepo = fullName]
                       /\ remoteTaken' = TRUE
                       /\ repoUrl' = sshUrl(fullName)
                       /\ Goto("addRemote")
                  ELSE /\ UNCHANGED <<world, remoteTaken, repoUrl>>
                       /\ Goto("addRemote")
  /\ UNCHANGED <<argName, options, world0, remote0, config, projectName, isPublic,
                 org, sshKeys, selectedIdentityFile, vVars, cVars, pVars, sVars>>
  /\ spin' = IF pc' = "failed" THEN oraFail(oraStart(spin, "ghSpinner"), "ghSpinner")
             ELSE oraSucceed(oraStart(spin, "ghSpinner"), "ghSpinner")

\* lines 406-418 with createRepoOnly (src/utils/github.js 75-91): the
\* creation command fails when the full name is taken
CreateRepo ==
  /\ pc = "createRepo"
  /\ \E uok \in (IF Truthy(org) THEN {TRUE} ELSE BOOLEAN),
        ok \in (IF remoteTaken THEN {FALSE} ELSE BOOLEAN) :
       LET lookup == IF Truthy(org) THEN <<>>
                     ELSE <<Entry("create", getGhUsername, uok)>>
           fullName == createFullName(projectName, org, GhUser)
           create == Entry("create",
                           ghRepoCreate(projectName, isPublic, org, GhUser), ok)
       IN IF ~uok
          THEN /\ log' = log \o lookup
               /\ Exit1("create")
               /\ UNCHANGED <<world, remoteTaken, repoUrl>>
          ELSE /\ log' = (log \o lookup) \o <<create>>
               /\ IF ok
                  THEN /\ world' = [world EXCEPT !.remoteRepo = fullName]
                       /\ remoteTaken' = TRUE
                       /\ repoUrl' = sshUrl(fullName)
                       /\ Goto("addRemote")
                  ELSE /\ UNCHANGED <<world, remoteTaken, repoUrl>>
                       /\ Exit1("create")
  /\ UNCHANGED <<argName, options, world0, remote0, config, projectName, isPublic,
                 org, sshKeys, selectedIdentityFile, vVars, cVars, pVars, sVars>>
  /\ spin' = IF pc' = "failed" THEN oraFail(oraStart(spin, "ghSpinner"), "ghSpinner")
             ELSE oraSucceed(oraStart(spin, "ghSpinner"), "ghSpinner")

\* lines 421-428
GitAddRemote ==
  /\ pc = "addRemote"
  /\ \E ok \in BOOLEAN :
       /\ log' = Append(log, Entry("remote",
                   gitAddRemote(repoUrl, IF Truthy(org) THEN <<org, projectName>>
                                         ELSE <<projectName>>), ok))
       /\ IF ok
          THEN /\ world' = [world EXCEPT !.origin = repoUrl]
               /\ Goto("select")
          ELSE /\ UNCHANGED world
               /\ Exit1("remote")
  /\ UNCHANGED <<argName, options, world0, remote0, remoteTaken, config,
                 projectName, isPublic, org, repoUrl, sshKeys,
                 selectedIdentityFile, vVars, cVars, pVars, sVars>>
  /\ spin' = IF pc' = "failed" THEN oraFail(oraStart(spin, "remoteSpinner"), "remoteSpinner")
             ELSE oraSucceed(oraStart(spin, "remoteSpinner"), "remoteSpinner")

\* the interactive prompt of @inquirer/prompts shown by select()
selectPrompt == Command("select", <<"Select SSH key to use for push:">>, <<>>)

\* SelectIdentity that also prompts for a single identity (variant)
SelectIdentity_PromptOnOne ==
  /\ pc = "select"
  /\ \E f \in SshConfigs :
       IF f.state = "unreadable"
       THEN /\ Crash
            /\ UNCHANGED <<sshKeys, selectedIdentityFile, log>>
       ELSE LET keys == IF f.state = "missing" THEN <<>>
                        ELSE getGitHubSSHKeys(f.lines)
            IN /\ sshKeys' = keys
               /\ IF Len(keys) >= 1
                  THEN /\ log' = Append(log, Entry("select", selectPrompt, TRUE))
                       /\ Goto("prompt")
                       /\ UNCHANGED selectedIdentityFile
                  ELSE /\ UNCHANGED <<selectedIdentityFile, log>>
                       /\ Goto("push")
  /\ UNCHANGED <<argName, options, world0, remote0, world, remoteTaken, config,
                 projectName, isPublic, org, repoUrl, vVars, cVars, pVars, sVars>>
  /\ UNCHANGED spin

\* lines 431-447 up to the prompt: read the SSH configuration as it is now
\* (readFileSync at ssh.js:16 is not inside a try) and show the prompt when
\* there is more than one identity
SelectIdentity ==
  /\ pc = "select"
  /\ \E f \in SshConfigs :
       IF f.state = "unreadable"
       THEN /\ Crash
            /\ UNCHANGED <<sshKeys, selectedIdentityFile, log>>
       ELSE LET keys == IF f.state = "missing" THEN <<>>
                        ELSE getGitHubSSHKeys(f.lines)
            IN /\ sshKeys' = keys
               /\ IF Len(keys) > 1
                  THEN /\ log' = Append(log, Entry("select", selectPrompt, TRUE))
                       /\ Goto("prompt")
                       /\ UNCHANGED selectedIdentityFile
                  ELSE IF Len(keys) = 1
                  THEN /\ selectedIdentityFile' = keys[1].identityFile
                       /\ Goto("push")
                       /\ UNCHANGED log
                  ELSE /\ UNCHANGED <<selectedIdentityFile, log>>
                       /\ Goto("push")
  /\ UNCHANGED <<argName, options, world0, remote0, world, remoteTaken, config,
                 projectName, isPublic, org, repoUrl, vVars, cVars, pVars, sVars>>
  /\ UNCHANGED spin

\* lines 436-444: the prompt returns the value of the chosen entry, or
\* rejects when the user interrupts it (nothing catches the rejection)
Prompt ==
  /\ pc = "prompt"
  /\ \/ /\ \E i \in 1..Len(sshKeys) :
             selectedIdentityFile' = sshKeys[i].identityFile
        /\ Goto("push")
     \/ /\ Crash
        /\ UNCHANGED selectedIdentityFile
  /\ UNCHANGED <<argName, options, world0, remote0, world, remoteTaken, config,
                 projectName, isPublic, org, repoUrl, sshKeys, log, vVars, cVars, pVars, sVars>>
  /\ UNCHANGED spin

\* GitPush whose catch block detaches the remote before exiting (variant)
GitPush_Rollback ==
  /\ pc = "push"
  /\ \E ok \in BOOLEAN :
       /\ log' = Append(log, Entry("push", gitPush("main"), ok))
       /\ IF ok
          THEN /\ world' = [world EXCEPT !.pushed = TRUE]
               /\ Goto("report")
          ELSE /\ world' = [world EXCEPT !.origin = NULL]
               /\ Exit1("push")
  /\ UNCHANGED <<argName, options, world0, remote0, remoteTaken, config,
                 projectName, isPublic, org, repoUrl, sshKeys,
                 selectedIdentityFile, vVars, cVars, pVars, sVars>>
  /\ spin' = IF pc' = "failed" THEN oraFail(oraStart(spin, "pushSpinner"), "pushSpinner")
             ELSE oraSucceed(oraStart(spin, "pushSpinner"), "pushSpinner")

\* lines 449-456: gitPush(targetDir, 'main', selectedIdentityFile); gitPush
\* (src/utils/git.js 63-65) has the parameters (dir, branch)
GitPush ==
  /\ pc = "push"
  /\ \E ok \in BOOLEAN :
       /\ log' = Append(log, Entry("push", gitPush("main"), ok))
       /\ IF ok
          THEN /\ world' = [world EXCEPT !.pushed = TRUE]
               /\ Goto("report")
          ELSE /\ UNCHANGED world
               /\ Exit1("push")
  /\ UNCHANGED <<argName, options, world0, remote0, remoteTaken, config,
                 projectName, isPublic, org, repoUrl, sshKeys,
                 selectedIdentityFile, vVars, cVars, pVars, sVars>>
  /\ spin' = IF pc' = "failed" THEN oraFail(oraStart(spin, "pushSpinner"), "pushSpinner")
             ELSE oraSucceed(oraStart(spin, "pushSpinner"), "pushSpinner")

\* lines 459-474: const owner = org || getGhUsername()
Report ==
  /\ pc = "report"
  /\ IF Truthy(org)
     THEN /\ pc' = "done"
          /\ exitCode' = 0
          /\ UNCHANGED <<log, failedAt>>
     ELSE \E uok \in BOOLEAN :
            /\ log' = Append(log, Entry("report", getGhUsername, uok))
            /\ IF uok
               THEN /\ pc' = "done"
                    /\ exitCode' = 0
                    /\ UNCHANGED failedAt
               ELSE Crash
  /\ UNCHANGED <<argName, options, world0, remote0, world, remoteTaken, config,
                 projectName, isPublic, org, repoUrl, sshKeys,
                 selectedIdentityFile, vVars, cVars, pVars, sVars>>
  /\ UNCHANGED spin

\* another party creates a repository of the same full name between the
\* existence check and the creation
OtherPartyCreates ==
  /\ pc \in {"safety", "mkdir", "readme", "gitInit", "rename", "addAll",
             "commit", "createRepo"}
  /\ ~remoteTaken
  /\ remoteTaken' = TRUE
  /\ UNCHANGED <<argName, options, world0, remote0, world, pc, config, projectName,
                 isPublic, org, repoUrl, sshKeys, selectedIdentityFile, log,
                 failedAt, exitCode, vVars, cVars, pVars, sVars>>
  /\ UNCHANGED spin

Next ==
  \/ Validate
  \/ IsGhInstalled
  \/ IsGhAuthenticated
  \/ RepoExists
  \/ SafetyChecks
  \/ CreateDirectory
  \/ WriteReadme
  \/ GitInit
  \/ GitRenameBranch
  \/ GitAddAll
  \/ GitCommit
  \/ CreateRepo
  \/ GitAddRemote
  \/ SelectIdentity
  \/ Prompt
  \/ GitPush
  \/ Report
  \/ OtherPartyCreates

Spec == Init /\ [][Next]_vars

\* every external command and the prompt return: a run that can take a
\* step takes one
SpecLive == Spec /\ WF_vars(Next)

\* ------------------------------------------------------------------------
\* The validator on its own: one call on an input from a bounded set
\* ------------------------------------------------------------------------
LongInputs ==
  { (p \o Rep("a", n)) \o q :
      p \in Strings(PadLen), q \in Strings(PadLen),
      n \in (MAX_PROJECT_NAME_LENGTH - 1)..(MAX_PROJECT_NAME_LENGTH + 1) }

ValidatorInputs == Strings(MaxLen) \cup LongInputs

InitV ==
  /\ vInput \in ValidatorInputs
  /\ vFn = "none"
  /\ vResult = Return(<<>>)
  /\ argName = <<>>
  /\ options = [public |-> FALSE, private |-> FALSE, here |-> FALSE,
                force |-> FALSE, org |-> NULL]
  /\ world0 = EmptyWorld
  /\ world = EmptyWorld
  /\ remoteTaken = FALSE
  /\ remote0 = FALSE
  /\ spin = <<>>
  /\ pc = "idle"
  /\ config = DEFAULT_CONFIG
  /\ projectName = NULL
  /\ isPublic = FALSE
  /\ org = NULL
  /\ repoUrl = NULL
  /\ sshKeys = <<>>
  /\ selectedIdentityFile = NULL
  /\ log = <<>>
  /\ failedAt = "none"
  /\ exitCode = -1
  /\ ConfigIdle
  /\ ListerIdle

CallValidateProjectName ==
  /\ vFn = "none"
  /\ vFn' = "validateProjectName"
  /\ vResult' = validateProjectName(vInput)
  /\ UNCHANGED <<vInput, wfVars, cVars, pVars, sVars>>

CallValidateGitHubName ==
  /\ vFn = "none"
  /\ vFn' = "validateGitHubName"
  /\ vResult' = validateGitHubName(vInput)
  /\ UNCHANGED <<vInput, wfVars, cVars, pVars, sVars>>

NextV ==
  \/ CallValidateProjectName
  \/ CallValidateGitHubName

SpecV == InitV /\ [][NextV]_vars

\* ------------------------------------------------------------------------
\* The config command (index.js, the action of `repokit config`)
\* ------------------------------------------------------------------------
\* preference files the command may find
ConfigFiles ==
  { MissingFile,
    [state |-> "unreadable", content |-> <<>>],
    FileWith(<<"{", "oops">>),
    FileWith(<<"7">>),
    FileWith(<<"\"", "a", "b", "\"">>),
    FileWith(<<"{", "\"", "defaultVisibility", "\"", ":", "7", "}">>),
    FileWith(JSONstringify(<< <<K_ORG, <<"p">>>>, <<K_VIS, PUBLIC>> >>)),
    FileWith(JSONstringify(<< <<K_ORG, <<"p">>>> >>)),
    FileWith(JSONstringify(<< <<K_ORG, NULL>>, <<K_VIS, PRIVATE>> >>)) }

PERSONAL == <<"personal">>

OrgArgs == { UNDEFINED, <<>>, PERSONAL, <<"o">>, <<" ", "-", "o">>, <<"Personal">> }
VisibilityArgs == { UNDEFINED, <<>>, PUBLIC, PRIVATE, <<"staging">>, <<"Public">> }

\* the init command and the validator calls are not running
InitIdle ==
  /\ vInput = <<>>
  /\ vFn = "none"
  /\ vResult = Return(<<>>)
  /\ argName = <<>>
  /\ options = [public |-> FALSE, private |-> FALSE, here |-> FALSE,
                force |-> FALSE, org |-> NULL]
  /\ world0 = EmptyWorld
  /\ world = EmptyWorld
  /\ remoteTaken = FALSE
  /\ remote0 = FALSE
  /\ spin = <<>>
  /\ pc = "idle"
  /\ config = DEFAULT_CONFIG
  /\ projectName = NULL
  /\ isPublic = FALSE
  /\ org = NULL
  /\ repoUrl = NULL
  /\ sshKeys = <<>>
  /\ selectedIdentityFile = NULL
  /\ log = <<>>
  /\ failedAt = "none"
  /\ exitCode = -1

InitC ==
  /\ rcFile \in ConfigFiles
  /\ rcFile0 = rcFile
  /\ cOptions \in [show : BOOLEAN, org : OrgArgs, visibility : VisibilityArgs]
  /\ cPc = "start"
  /\ cConfig = DEFAULT_CONFIG
  /\ cExit = -1
  /\ pIn = <<>>
  /\ pPc = "idle"
  /\ pOut = <<>>
  /\ InitIdle
  /\ ListerIdle

\* lines 142-150 of the action: config.defaultOrg after the org update
updateOrg(cfg, opts) ==
  IF Truthy(opts.org)
  THEN IF opts.org = PERSONAL THEN Put(cfg, K_ORG, NULL)
       ELSE Put(cfg, K_ORG, opts.org)
  ELSE cfg

\* ['public', 'private'].includes(options.visibility)
validVisibility(v) == v = PUBLIC \/ v = PRIVATE

\* the whole action: load, show or update, save.  A write that fails makes
\* saveConfig throw, nothing catches it and the process ends with status 1.
\* ConfigCommand that saves before it tests the visibility (variant)
ConfigCommand_SaveFirst ==
  /\ cPc = "start"
  /\ LET cfg == loadConfig(rcFile)
         cfg1 == updateOrg(cfg, cOptions)
     IN /\ cConfig' = cfg
        /\ IF cOptions.show
              \/ (~Truthy(cOptions.org) /\ ~Truthy(cOptions.visibility))
           THEN /\ cPc' = "shown"
                /\ cExit' = 0
                /\ UNCHANGED rcFile
           ELSE \E written \in BOOLEAN :
                  /\ rcFile' = IF written THEN FileWith(saveConfig(cfg1)) ELSE rcFile
                  /\ IF Truthy(cOptions.visibility)
                        /\ ~validVisibility(cOptions.visibility)
                     THEN /\ cPc' = "invalid"
                          /\ cExit' = 1
                     ELSE /\ cPc' = IF written THEN "saved" ELSE "threw"
                          /\ cExit' = IF written THEN 0 ELSE 1
  /\ UNCHANGED <<rcFile0, cOptions, pVars, vVars, wfVars, sVars>>

\* ConfigCommand that writes only the fields supplied (variant)
ConfigCommand_SaveSuppliedOnly ==
  /\ cPc = "start"
  /\ LET cfg == loadConfig(rcFile)
         cfg1 == updateOrg(<<>>, cOptions)
     IN /\ cConfig' = cfg
        /\ IF cOptions.show
              \/ (~Truthy(cOptions.org) /\ ~Truthy(cOptions.visibility))
           THEN /\ cPc' = "shown"
                /\ cExit' = 0
                /\ UNCHANGED rcFile
           ELSE IF Truthy(cOptions.visibility)
                   /\ ~validVisibility(cOptions.visibility)
           THEN /\ cPc' = "invalid"
                /\ cExit' = 1
                /\ UNCHANGED rcFile
           ELSE LET cfg2 == IF Truthy(cOptions.visibility)
                            THEN Put(cfg1, K_VIS, cOptions.visibility)
                            ELSE cfg1
                IN \E written \in BOOLEAN :
                     IF written
                     THEN /\ rcFile' = FileWith(saveConfig(cfg2))
                          /\ cPc' = "saved"
                          /\ cExit' = 0
                     ELSE /\ UNCHANGED rcFile
                          /\ cPc' = "threw"
                          /\ cExit' = 1
  /\ UNCHANGED <<rcFile0, cOptions, pVars, vVars, wfVars, sVars>>

\* ConfigCommand that lowercases the organization it stores (variant)
ConfigCommand_PersonalAnyCase ==
  /\ cPc = "start"
  /\ LET cfg == loadConfig(rcFile)
         cfg1 == IF cOptions.org = <<"Personal">>
                 THEN Put(cfg, K_ORG, NULL) ELSE updateOrg(cfg, cOptions)
     IN /\ cConfig' = cfg
        /\ IF cOptions.show
              \/ (~Truthy(cOptions.org) /\ ~Truthy(cOptions.visibility))
           THEN /\ cPc' = "shown"
                /\ cExit' = 0
                /\ UNCHANGED rcFile
           ELSE IF Truthy(cOptions.visibility)
                   /\ ~validVisibility(cOptions.visibility)
           THEN /\ cPc' = "invalid"
                /\ cExit' = 1
                /\ UNCHANGED rcFile
           ELSE LET cfg2 == IF Truthy(cOptions.visibility)
                            THEN Put(cfg1, K_VIS, cOptions.visibility)
                            ELSE cfg1
                IN \E written \in BOOLEAN :
                     IF written
                     THEN /\ rcFile' = FileWith(saveConfig(cfg2))
                          /\ cPc' = "saved"
                          /\ cExit' = 0
                     ELSE /\ UNCHANGED rcFile
                          /\ cPc' = "threw"
                          /\ cExit' = 1
  /\ UNCHANGED <<rcFile0, cOptions, pVars, vVars, wfVars, sVars>>

\* ConfigCommand that ends with status 0 on an invalid visibility (variant)
ConfigCommand_InvalidExits0 ==
  /\ cPc = "start"
  /\ LET cfg == loadConfig(rcFile)
         cfg1 == updateOrg(cfg, cOptions)
     IN /\ cConfig' = cfg
        /\ IF cOptions.show
              \/ (~Truthy(cOptions.org) /\ ~Truthy(cOptions.visibility))
           THEN /\ cPc' = "shown"
                /\ cExit' = 0
                /\ UNCHANGED rcFile
           ELSE IF Truthy(cOptions.visibility)
                   /\ ~validVisibility(cOptions.visibility)
           THEN /\ cPc' = "invalid"
                /\ cExit' = 0
                /\ UNCHANGED rcFile
           ELSE LET cfg2 == IF Truthy(cOptions.visibility)
                            THEN Put(cfg1, K_VIS, cOptions.visibility)
                            ELSE cfg1
                IN \E written \in BOOLEAN :
                     IF written
                     THEN /\ rcFile' = FileWith(saveConfig(cfg2))
                          /\ cPc' = "saved"
                          /\ cExit' = 0
                     ELSE /\ UNCHANGED rcFile
                          /\ cPc' = "threw"
                          /\ cExit' = 1
  /\ UNCHANGED <<rcFile0, cOptions, pVars, vVars, wfVars, sVars>>

ConfigCommand ==
  /\ cPc = "start"
  /\ LET cfg == loadConfig(rcFile)
         cfg1 == updateOrg(cfg, cOptions)
     IN /\ cConfig' = cfg
        /\ IF cOptions.show
              \/ (~Truthy(cOptions.org) /\ ~Truthy(cOptions.visibility))
           THEN /\ cPc' = "shown"
                /\ cExit' = 0
                /\ UNCHANGED rcFile
           ELSE IF Truthy(cOptions.visibility)
                   /\ ~validVisibility(cOptions.visibility)
           THEN /\ cPc' = "invalid"
                /\ cExit' = 1
                /\ UNCHANGED rcFile
           ELSE LET cfg2 == IF Truthy(cOptions.visibility)
                            THEN Put(cfg1, K_VIS, cOptions.visibility)
                            ELSE cfg1
                IN \E written \in BOOLEAN :
                     IF written
                     THEN /\ rcFile' = FileWith(saveConfig(cfg2))
                          /\ cPc' = "saved"
                          /\ cExit' = 0
                     ELSE /\ UNCHANGED rcFile
                          /\ cPc' = "threw"
                          /\ cExit' = 1
  /\ UNCHANGED <<rcFile0, cOptions, pVars, vVars, wfVars, sVars>>

NextC == ConfigCommand

SpecC == InitC /\ [][NextC]_vars

\* ------------------------------------------------------------------------
\* The preference store on its own (config.js): saveConfig, loadConfig
\* ------------------------------------------------------------------------
MaxOrgLen == 2

\* characters of organization names that JSON text treats specially, and one
\* that it does not
OrgAlphabet == {"a", "\"", "\\", "\n"}

OrgStrings ==
  UNION { [1..n -> OrgAlphabet] : n \in 0..MaxOrgLen }

\* defaultOrg omitted, null or a string
OrgFields == { <<>> } \cup { << <<K_ORG, v>> >> : v \in {NULL} \cup OrgStrings }
\* defaultVisibility omitted, 'public' or 'private'
VisibilityFields == { <<>> } \cup { << <<K_VIS, v>> >> : v \in {PUBLIC, PRIVATE} }

ValidPreferences ==
  { o \o v : o \in OrgFields, v \in VisibilityFields }
    \cup { v \o o : o \in OrgFields, v \in VisibilityFields }

InitP ==
  /\ pIn \in ValidPreferences
  /\ pPc = "start"
  /\ pOut = <<>>
  /\ rcFile \in ConfigFiles
  /\ rcFile0 = rcFile
  /\ cOptions = [show |-> FALSE, org |-> UNDEFINED, visibility |-> UNDEFINED]
  /\ cPc = "idle"
  /\ cConfig = DEFAULT_CONFIG
  /\ cExit = -1
  /\ InitIdle
  /\ ListerIdle

\* saveConfig(pIn): the write succeeds, or fails and saveConfig throws
CallSaveConfig ==
  /\ pPc = "start"
  /\ \E written \in BOOLEAN :
       IF written
       THEN /\ rcFile' = FileWith(saveConfig(pIn))
            /\ pPc' = "saved"
       ELSE /\ UNCHANGED rcFile
            /\ pPc' = "saveThrew"
  /\ UNCHANGED <<pIn, pOut, rcFile0, cOptions, cPc, cConfig, cExit, vVars, wfVars, sVars>>

\* loadConfig() of the file as found, or after a save
CallLoadConfig ==
  /\ pPc \in {"start", "saved"}
  /\ pOut' = loadConfig(rcFile)
  /\ pPc' = IF pPc = "start" THEN "loaded" ELSE "reloaded"
  /\ UNCHANGED <<pIn, cVars, vVars, wfVars, sVars>>

NextP == CallSaveConfig \/ CallLoadConfig

SpecP == InitP /\ [][NextP]_vars

\* ------------------------------------------------------------------------
\* The lister on its own (ssh.js): getGitHubSSHKeys of a readable file
\* ------------------------------------------------------------------------
MaxLines == 4

\* lines a configuration is made of
RawLines ==
  { <<"Host", " ", "github.com">>,
    <<"Host", " ", "github.com", "-", "w">>,
    <<"host", " ", " ", "x", "github.com">>,
    <<"Host", " ", "gh">>,
    <<" ", "HostName", " ", "github.com">>,
    <<"hostname", " ", "github.com", "x">>,
    <<"\t", "IdentityFile", " ", "~", "/k", " ">>,
    <<"identityfile", " ", "/k", "~", "x">>,
    <<"Host">>,
    <<>> }

RawConfigs == UNION { [1..n -> RawLines] : n \in 0..MaxLines }

InitS ==
  /\ sIn \in RawConfigs
  /\ sPc = "start"
  /\ sOut = <<>>
  /\ InitIdle
  /\ ConfigIdle

CallGetGitHubSSHKeys ==
  /\ sPc = "start"
  /\ sOut' = getGitHubSSHKeys(lexLines(sIn))
  /\ sPc' = "done"
  /\ UNCHANGED <<sIn, wfVars, vVars, cVars, pVars>>

NextS == CallGetGitHubSSHKeys

SpecS == InitS /\ [][NextS]_vars

\* ------------------------------------------------------------------------
\* Properties of the validator (checked under SpecV)
\* ------------------------------------------------------------------------
AllValidChars(s) == \A i \in 1..Len(s) : s[i] \in ValidChars
HasDotDot(s) == \E i \in 1..Len(s) : i < Len(s) /\ s[i] = "." /\ s[i + 1] = "."
LeadingDotOrHyphen(s) == Len(s) > 0 /\ s[1] \in {".", "-"}
WhitespaceOnly(s) == \A i \in 1..Len(s) : s[i] \in WhiteSpace

WellFormedName(s) ==
  /\ Len(s) >= 1
  /\ Len(s) <= 100
  /\ AllValidChars(s)
  /\ ~LeadingDotOrHyphen(s)
  /\ ~HasDotDot(s)

\* the five rules of the validator, stated on a string
Violates(k, s) ==
  CASE k = 1 -> s = <<>>
    [] k = 2 -> Len(s) > 100
    [] k = 3 -> LeadingDotOrHyphen(s)
    [] k = 4 -> ~AllValidChars(s)
    [] k = 5 -> HasDotDot(s)

\* the messages that report each rule
RuleMessages(k) ==
  CASE k = 1 -> {"Project name is required", "Project name cannot be empty"}
    [] k = 2 -> {"Project name must be 100 characters or less"}
    [] k = 3 -> {"Project name cannot start with a period",
                 "Project name cannot start with a hyphen"}
    [] k = 4 -> {"Project name can only contain letters, numbers, hyphens, underscores, and periods"}
    [] k = 5 -> {"Project name cannot contain \"..\""}

ViolatedRules(s) == {k \in 1..5 : Violates(k, s)}
LowestViolated(s) ==
  CHOOSE k \in ViolatedRules(s) : \A j \in ViolatedRules(s) : k <= j

\* C7: every string of length 1 to 100 over [A-Za-z0-9._-] that does not
\* start with '.' or '-' and does not contain '..' is accepted by
\* validateProjectName and by validateGitHubName and returned unchanged.
C7_AcceptsWellFormed ==
  (vFn # "none" /\ WellFormedName(vInput)) => vResult = Return(vInput)

C7_Witness ==
  /\ vFn = "validateGitHubName"
  /\ Len(vInput) = 100
  /\ WellFormedName(vInput)
  /\ vResult.ok

\* C8 as stated: every string that contains a character outside
\* [A-Za-z0-9._-], or starts with '.' or '-', or is empty or whitespace-only,
\* or is longer than 100 characters, or contains '..', is rejected.
C8_RejectsRaw ==
  (/\ vFn = "validateProjectName"
   /\ \/ ~AllValidChars(vInput)
      \/ LeadingDotOrHyphen(vInput)
      \/ WhitespaceOnly(vInput)
      \/ Len(vInput) > 100
      \/ HasDotDot(vInput))
  => ~vResult.ok

\* C8 amended: every string that is empty, or whose whitespace-trimmed form
\* is empty, longer than 100 characters, starts with '.' or '-', contains a
\* character outside [A-Za-z0-9._-] or contains '..', is rejected, and the
\* message is the message of exactly one rule, a rule the trimmed string
\* violates.
C8_RejectsTrimmed ==
  (vFn = "validateProjectName" /\ ViolatedRules(trim(vInput)) # {})
  => /\ ~vResult.ok
     /\ \E k \in ViolatedRules(trim(vInput)) :
          /\ vResult.msg \in RuleMessages(k)
          /\ \A j \in 1..5 : j # k => vResult.msg \notin RuleMessages(j)

C8_Witness ==
  /\ vFn = "validateProjectName"
  /\ HasDotDot(vInput)
  /\ ViolatedRules(trim(vInput)) = {5}
  /\ ~vResult.ok

\* C9: the rules are applied in the order non-empty after trimming, length,
\* leading character, character set, '..'; the error reported is the one of
\* the lowest-numbered rule the trimmed input violates, and an input that
\* violates none is accepted.
C9_FirstViolationWins ==
  vFn = "validateProjectName" =>
    IF ViolatedRules(trim(vInput)) = {}
    THEN vResult.ok
    ELSE /\ ~vResult.ok
         /\ vResult.msg \in RuleMessages(LowestViolated(trim(vInput)))

C9_Witness ==
  /\ vFn = "validateProjectName"
  /\ {2, 3, 4} \subseteq ViolatedRules(trim(vInput))
  /\ vResult.msg \in RuleMessages(2)

\* ------------------------------------------------------------------------
\* Properties of the workflow (checked under Spec)
\* ------------------------------------------------------------------------
EffectOps ==
  <<"mkdir", "writeFile README.md", "git init", "git branch -M", "git add",
    "git commit", "gh repo create", "git remote add", "git push">>
GitOps == {"git init", "git branch -M", "git add", "git commit",
           "git remote add", "git push"}
IsEffect(e) == e.ok /\ \E i \in 1..Len(EffectOps) : EffectOps[i] = e.op
Effects(l) == SelectSeq(l, IsEffect)

\* C1: without --here the side effects occur in the order directory
\* created, README.md written with '# <name>' and a newline, git init,
\* branch renamed to main, stage-all, commit 'Initial commit', remote
\* repository created, origin added, push of main; each at most once, none
\* before the previous one has succeeded, and all nine by the time the run
\* has pushed.
C1_EffectsInOrder ==
  ~options.here =>
    LET e == Effects(log) IN
    /\ Len(e) <= Len(EffectOps)
    /\ \A i \in 1..Len(e) :
         /\ e[i].op = EffectOps[i]
         /\ i = 2 => e[i].cmd = <<"# ">> \o projectName \o <<"\n">>
         /\ i = 4 => e[i].cmd = <<"git branch -M ", "main">>
         /\ i = 6 => e[i].cmd = <<"git commit -m \"", "Initial commit", "\"">>
         /\ i = 9 => e[i].cmd = <<"git push -u origin ", "main">>
    /\ pc \in {"report", "done"} => Len(e) = Len(EffectOps)
    /\ world.pushed => world.origin # NULL
    /\ world.origin # NULL => world.remoteRepo # NULL
    /\ world.remoteRepo # NULL => world.commits = <<"Initial commit">>
    /\ world.commits # <<>> => world.staged = FALSE /\ world.branch = "main"
    /\ world.git => world.readme = <<"# ">> \o projectName \o <<"\n">>
    /\ world.readme # NULL => world.dir

C1_Witness ==
  /\ pc = "done"
  /\ ~options.here
  /\ ~world0.dir
  /\ Len(Effects(log)) = 9
  /\ world.pushed

\* C2: once a step has failed, the log holds no external command and no
\* file-system write of a later step, and the run is over.
C2_FailureHalts ==
  failedAt # "none" =>
    /\ pc = "failed"
    /\ \A i \in 1..Len(log) : StepIndex(log[i].step) <= StepIndex(failedAt)

C2_Witness ==
  /\ failedAt = "commit"
  /\ Len(log) > 0
  /\ ~log[Len(log)].ok
  /\ log[Len(log)].op = "git commit"

\* C3: a step that fails leaves the directory, the README, the commits, the
\* remote repository and the origin remote exactly as they were, nothing
\* changes after the failure, and no step ever removes one of them.
C3_NoRollback ==
  [][ /\ failedAt' # "none" => world' = world
      /\ world.dir => world'.dir
      /\ world.git => world'.git
      /\ Len(world.commits) <= Len(world'.commits)
      /\ SubSeq(world'.commits, 1, Len(world.commits)) = world.commits
      /\ world.remoteRepo # NULL => world'.remoteRepo = world.remoteRepo
      /\ world.origin # NULL => world'.origin = world.origin
      /\ world.readme # NULL => world'.readme # NULL
      /\ world.readme = readmeContent(projectName)
           => world'.readme = world.readme
    ]_vars

C3_Witness ==
  /\ failedAt = "push"
  /\ world.dir
  /\ world.readme = readmeContent(projectName)
  /\ world.commits # <<>>
  /\ world.remoteRepo # NULL
  /\ world.origin # NULL
  /\ ~world.pushed

PreflightOps == <<"which gh", "gh auth status", "gh repo view">>
CheckPassed(e) == IF e.op = "gh repo view" THEN ~e.ok ELSE e.ok

\* C4: a run that fails in preflight has touched nothing: only check
\* commands were run, in the order installed, authenticated,
\* repository-exists, each only after the previous one passed, and every
\* other command or write comes after all three have passed.
C4_PreflightBeforeEffects ==
  /\ \A i \in 1..Len(log) :
       /\ i <= 3 => log[i].op = PreflightOps[i]
       /\ (i <= 3 /\ i > 1) => CheckPassed(log[i - 1])
       /\ i > 3 => /\ CheckPassed(log[3])
                   /\ \A j \in 1..3 : log[i].op # PreflightOps[j]
  /\ failedAt = "preflight" =>
       /\ Len(log) \in 1..3
       /\ ~CheckPassed(log[Len(log)])
       /\ world = world0

C4_Witness ==
  /\ failedAt = "preflight"
  /\ Len(log) = 2
  /\ log[2].op = "gh auth status"

\* C5: with --here and without --force, in a directory that holds .git or
\* README.md, the run never gets past the safety checks: no README.md is
\* written, no git command is run, no remote repository is created, and the
\* run can only end with status 1.
C5_UnsafeReuseAborts ==
  (options.here /\ ~options.force /\ (world0.git \/ world0.readme # NULL)) =>
    /\ world = world0
    /\ \A i \in 1..Len(log) :
         /\ log[i].op \notin GitOps
         /\ log[i].op \notin {"mkdir", "writeFile README.md", "gh repo create"}
    /\ pc \in {"validate", "installed", "authenticated", "repoExists",
               "safety", "failed"}
    /\ exitCode \in {-1, 1}
    /\ pc = "failed" => exitCode = 1

C5_Witness ==
  /\ failedAt = "safety"
  /\ options.here
  /\ ~options.force
  /\ ~world0.git
  /\ world0.readme # NULL
  /\ exitCode = 1

SafeName(s) ==
  /\ AllValidChars(s)
  /\ ~LeadingDotOrHyphen(s)
  /\ ~HasDotDot(s)

\* C6: every project-name and organization string interpolated into a
\* command line (gh repo view, gh repo create, the URL of git remote add)
\* consists only of characters in [A-Za-z0-9._-], does not start with '-'
\* or '.', and does not contain '..'.
C6_InterpolatedNamesSafe ==
  \A i \in 1..Len(log) :
    \A j \in 1..Len(log[i].args) : SafeName(log[i].args[j])

\* C10: the push command that is executed carries the selected identity
\* file as its identity override, and none when no identity was selected.
C10_PushUsesIdentity ==
  \A i \in 1..Len(log) :
    log[i].op = "git push" => log[i].identity = selectedIdentityFile

Prompts == SelectSeq(log, LAMBDA e : e.op = "select")
PushStarted == \E i \in 1..Len(log) : log[i].op = "git push"

\* C11: with exactly one identity listed it is selected and no prompt is
\* shown; with more than one the prompt is shown exactly once, the push
\* does not start before it has returned and the selection is one of the
\* listed identity files; with none no prompt is shown and nothing is
\* selected.
C11_IdentitySelection ==
  /\ Len(Prompts) <= 1
  /\ pc = "prompt" => (Len(Prompts) = 1 /\ ~PushStarted /\ Len(sshKeys) > 1)
  /\ \A i \in 1..Len(log) :
       (log[i].op = "git push" /\ Len(sshKeys) > 1)
         => \E j \in 1..(i - 1) : log[j].op = "select"
  /\ (pc \in {"push", "report", "done"} \/ PushStarted) =>
       /\ Len(sshKeys) = 1 =>
            (Len(Prompts) = 0 /\ selectedIdentityFile = sshKeys[1].identityFile)
       /\ Len(sshKeys) > 1 =>
            /\ Len(Prompts) = 1
            /\ \E k \in 1..Len(sshKeys) :
                 selectedIdentityFile = sshKeys[k].identityFile
       /\ Len(sshKeys) = 0 =>
            (Len(Prompts) = 0 /\ selectedIdentityFile = NULL)

C11_Witness ==
  /\ pc = "done"
  /\ Len(sshKeys) > 1
  /\ Len(Prompts) = 1
  /\ selectedIdentityFile = sshKeys[2].identityFile
  /\ selectedIdentityFile # sshKeys[1].identityFile

PushSucceeded == \E i \in 1..Len(log) : log[i].op = "git push" /\ log[i].ok

\* C12: a run that has ended has status 0 when every step through the push
\* succeeded and status 1 otherwise.
C12_ExitStatus ==
  exitCode # -1 => (IF PushSucceeded THEN exitCode = 0 ELSE exitCode = 1)

\* C20: whatever the state of the SSH configuration file, the identity
\* selection step goes on to the prompt or to the push; the run never ends
\* in the lister.
C20_ListerNeverFails ==
  [][pc = "select" => pc' \in {"prompt", "push"}]_vars

\* ------------------------------------------------------------------------
\* Properties of the config command (checked under SpecC)
\* ------------------------------------------------------------------------
Keys(o) == { o[i][1] : i \in 1..Len(o) }

\* the record held by the preference file, as a later load would parse it
Stored == OwnEntries(JSONparse(rcFile.content))

OrgSupplied == IsString(cOptions.org) /\ cOptions.org # <<>>
VisibilitySupplied == IsString(cOptions.visibility) /\ cOptions.visibility # <<>>
VisibilityGiven == cOptions.visibility # UNDEFINED
VisibilityValid == cOptions.visibility \in {PUBLIC, PRIVATE}
CommandEnded == cPc # "start"

\* C13 (as stated): every invocation whose --visibility value is neither
\* 'public' nor 'private' ends with status 1 and leaves the preference file
\* as it was.
C13_InvalidVisibilityFails ==
  (CommandEnded /\ VisibilityGiven /\ ~VisibilityValid)
    => (cExit = 1 /\ rcFile = rcFile0)

\* C13 (amended): every invocation without --show whose --visibility value
\* is a non-empty string other than 'public' and 'private', with or without
\* --org, ends with status 1 and leaves the preference file as it was.
C13_InvalidVisibilityWithoutShow ==
  (CommandEnded /\ ~cOptions.show /\ VisibilitySupplied /\ ~VisibilityValid)
    => (cExit = 1 /\ rcFile = rcFile0)

C13_Witness ==
  /\ cPc = "invalid"
  /\ cOptions.org = <<"o">>
  /\ cOptions.visibility = <<"staging">>
  /\ rcFile0.state = "present"
  /\ rcFile = rcFile0
  /\ cExit = 1

\* C14: after a successful `config --org personal` the stored default
\* organization is null whatever it was; after a successful `config --org X`
\* for any other non-empty X it is exactly X.
C14_OrgStoredVerbatim ==
  (CommandEnded /\ ~cOptions.show /\ cExit = 0 /\ OrgSupplied)
    => /\ rcFile.state = "present"
       /\ Has(Stored, K_ORG)
       /\ Get(Stored, K_ORG) =
            (IF cOptions.org = <<"personal">> THEN NULL ELSE cOptions.org)

C14_Witness ==
  /\ cPc = "saved"
  /\ cOptions.org = <<"personal">>
  /\ Get(cConfig, K_ORG) = <<"p">>
  /\ Get(Stored, K_ORG) = NULL

SuppliedValue(k) ==
  IF k = K_ORG
  THEN (IF cOptions.org = <<"personal">> THEN NULL ELSE cOptions.org)
  ELSE cOptions.visibility

IsSupplied(k) ==
  \/ k = K_ORG /\ OrgSupplied
  \/ k = K_VIS /\ VisibilitySupplied

\* the stored record is the loaded one with exactly the supplied fields set
StoredIsLoadedUpdated ==
  /\ rcFile.state = "present"
  /\ Keys(Stored) = Keys(cConfig) \cup { k \in {K_ORG, K_VIS} : IsSupplied(k) }
  /\ \A k \in Keys(Stored) :
       Get(Stored, k) = (IF IsSupplied(k) THEN SuppliedValue(k)
                         ELSE Get(cConfig, k))

\* C15 (as stated): every invocation that supplies --org and/or a valid
\* --visibility leaves stored preferences equal to the loaded ones with
\* exactly the supplied fields updated.
C15_SuppliedFieldsSaved ==
  (CommandEnded /\ (OrgSupplied \/ VisibilitySupplied)
     /\ (VisibilitySupplied => VisibilityValid))
    => StoredIsLoadedUpdated

\* C15 (amended): every invocation without --show that supplies --org
\* and/or a valid --visibility and whose write succeeds (status 0) leaves
\* stored preferences equal to the loaded ones with exactly the supplied
\* fields updated.
C15_SuppliedFieldsSavedOnSuccess ==
  (CommandEnded /\ ~cOptions.show /\ cExit = 0
     /\ (OrgSupplied \/ VisibilitySupplied)
     /\ (VisibilitySupplied => VisibilityValid))
    => StoredIsLoadedUpdated

C15_Witness ==
  /\ cPc = "saved"
  /\ cOptions.org = UNDEFINED
  /\ cOptions.visibility = PRIVATE
  /\ Get(cConfig, K_ORG) = <<"p">>
  /\ Get(cConfig, K_VIS) = PUBLIC
  /\ Get(Stored, K_ORG) = <<"p">>
  /\ Get(Stored, K_VIS) = PRIVATE

\* C16 (as stated): the command ends with status 1 when an invalid
\* visibility value is supplied and with status 0 in every other case.
C16_ExitStatus ==
  CommandEnded
    => cExit = (IF VisibilityGiven /\ ~VisibilityValid THEN 1 ELSE 0)

\* C16 (amended): the command ends with status 1 when, without --show, a
\* non-empty invalid visibility value is supplied or the preference file
\* cannot be written, and with status 0 in every other case.
C16_ExitStatusWithWriteFailure ==
  CommandEnded
    => cExit = (IF \/ ~cOptions.show /\ VisibilitySupplied /\ ~VisibilityValid
                   \/ cPc = "threw"
                THEN 1 ELSE 0)

C16_Witness ==
  /\ cPc = "threw"
  /\ cExit = 1
  /\ cOptions.visibility = PUBLIC
  /\ rcFile = rcFile0

\* ------------------------------------------------------------------------
\* Properties of the preference store (checked under SpecP)
\* ------------------------------------------------------------------------
\* C17: for every valid preference record p, saveConfig(p) followed by
\* loadConfig() returns the defaults overridden by the fields of p: the two
\* fields and no other, each with p's value when p has it and the default
\* value otherwise.
C17_SaveThenLoad ==
  pPc = "reloaded"
    => /\ Keys(pOut) = {K_ORG, K_VIS}
       /\ Len(pOut) = 2
       /\ Get(pOut, K_ORG) = (IF Has(pIn, K_ORG) THEN Get(pIn, K_ORG) ELSE NULL)
       /\ Get(pOut, K_VIS) = (IF Has(pIn, K_VIS) THEN Get(pIn, K_VIS) ELSE PRIVATE)

C17_Witness ==
  /\ pPc = "reloaded"
  /\ pIn = << <<K_ORG, <<"\"", "\\">>>> >>
  /\ Get(pOut, K_ORG) = <<"\"", "\\">>
  /\ Get(pOut, K_VIS) = PRIVATE
  /\ rcFile0.state = "present"
  /\ Get(loadConfig(rcFile0), K_VIS) = PUBLIC

\* the content of the file as found is a record with no field but the two
\* preferences, each of its kind
FoundRecord ==
  LET r == JSONparse(rcFile0.content) IN
  /\ rcFile0.state = "present"
  /\ r.ok
  /\ r.kind = "object"
  /\ Keys(r.obj) \subseteq {K_ORG, K_VIS}
  /\ Has(r.obj, K_ORG) => (Get(r.obj, K_ORG) = NULL \/ IsString(Get(r.obj, K_ORG)))
  /\ Has(r.obj, K_VIS) => Get(r.obj, K_VIS) \in {PUBLIC, PRIVATE}

\* C18: loadConfig returns, and when the file is missing, cannot be parsed
\* or does not hold a preference record, what it returns is exactly the
\* built-in defaults.
C18_DefaultsUnlessRecord ==
  (pPc = "loaded" /\ ~FoundRecord) => pOut = DEFAULT_CONFIG

\* ------------------------------------------------------------------------
\* Properties of the lister (checked under SpecS)
\* ------------------------------------------------------------------------
\* the line without surrounding whitespace
Body(i) == trim(sIn[i])

\* line i is `<keyword> <value>` for a keyword of kws, in any case
IsKeywordLine(i, kws) ==
  /\ Len(Body(i)) >= 3
  /\ Body(i)[1] \in kws
  /\ Body(i)[2] \in WhiteSpace
  /\ \E j \in 3..Len(Body(i)) : Body(i)[j] \notin WhiteSpace

\* its value: what follows the keyword and the whitespace after it
ValueOf(i) ==
  LET b == Body(i)
      first == CHOOSE j \in 3..Len(b) :
                 b[j] \notin WhiteSpace /\ \A k \in 2..(j - 1) : b[k] \in WhiteSpace
  IN SubSeq(b, first, Len(b))

HostLines == { i \in 1..Len(sIn) : IsKeywordLine(i, {"Host", "host", "HOST"}) }

\* the lines of the block opened by Host line i
BlockOf(i) ==
  { j \in (i + 1)..Len(sIn) : \A h \in HostLines : ~(i < h /\ h <= j) }

ContainsGitHub(alias) == \E k \in 1..Len(alias) : alias[k] = "github.com"

GitHubBlocks ==
  { i \in HostLines :
      \/ ContainsGitHub(ValueOf(i))
      \/ \E j \in BlockOf(i) :
           /\ IsKeywordLine(j, {"HostName", "hostname", "HOSTNAME"})
           /\ ValueOf(j) = <<"github.com">> }

\* the position of block i among the GitHub blocks, in file order
RankOf(i) == Cardinality({ h \in GitHubBlocks : h <= i })

ExpectedName(alias) ==
  IF Len(alias) >= 2 /\ SubSeq(alias, 1, 2) = <<"github.com", "-">>
  THEN SubSeq(alias, 3, Len(alias))
  ELSE IF alias = <<"github.com">> THEN <<"default">>
  ELSE alias

\* C19: getGitHubSSHKeys returns one entry per Host block whose alias
\* contains 'github.com' or that holds a HostName line equal to
\* 'github.com', in file order, and none for any other block; an entry's
\* name is the suffix of an alias 'github.com-<suffix>', 'default' for the
\* alias 'github.com' and the alias otherwise.
C19_OneEntryPerGitHubBlock ==
  sPc = "done"
    => /\ Len(sOut) = Cardinality(GitHubBlocks)
       /\ \A i \in GitHubBlocks :
            /\ sOut[RankOf(i)].host = ValueOf(i)
            /\ sOut[RankOf(i)].name = ExpectedName(ValueOf(i))

C19_Witness ==
  /\ sPc = "done"
  /\ sIn = << <<"Host", " ", "gh">>,
              <<" ", "HostName", " ", "github.com">>,
              <<"Host">>,
              <<"Host", " ", "github.com", "-", "w">> >>
  /\ Len(sOut) = 2
  /\ sOut[1].host = <<"gh">>
  /\ sOut[1].name = <<"gh">>
  /\ sOut[2].name = <<"w">>

\* ------------------------------------------------------------------------
\* Properties of repository creation and of the resolved options (Spec)
\* ------------------------------------------------------------------------
CreateStep == SelectSeq(log, LAMBDA e : e.step = "create")
Creations == SelectSeq(log, LAMBDA e : e.op = "gh repo create")
OrgGiven == org \notin {NULL, UNDEFINED, <<>>}
LookupFailed ==
  \E i \in 1..Len(CreateStep) :
    CreateStep[i].op = "gh api user" /\ ~CreateStep[i].ok

\* the full name the claim names: org/name, or <username>/name
OwnerSlashName == ((IF OrgGiven THEN org ELSE <<"u">>) \o <<"/">>) \o projectName

\* C21: the creation step issues one `gh repo create <fullName> --public` or
\* `--private` command and nothing after the flag, for org/name when an
\* organization is given and <username>/name otherwise; when it succeeds
\* the URL is git@github.com:<fullName>.git, and when the username lookup
\* or the command fails there is no URL (and after a failed lookup no
\* creation command).
C21_CreateRepoOnly ==
  CreateStep # <<>>
    => /\ Len(Creations) = (IF LookupFailed THEN 0 ELSE 1)
       /\ ~OrgGiven => CreateStep[1].op = "gh api user"
       /\ OrgGiven => CreateStep[1].op = "gh repo create"
       /\ \A i \in 1..Len(Creations) :
            /\ Creations[i].cmd =
                 (<<"gh repo create ">> \o OwnerSlashName)
                   \o <<" ", IF isPublic THEN "--public" ELSE "--private">>
            /\ Creations[i].ok
                 => repoUrl = (<<"git@github.com:">> \o OwnerSlashName) \o <<".git">>
            /\ ~Creations[i].ok => (repoUrl = NULL /\ pc = "failed")
       /\ LookupFailed => (repoUrl = NULL /\ pc = "failed")

C21_Witness ==
  /\ pc = "addRemote"
  /\ org = <<"o">>
  /\ isPublic
  /\ Len(Creations) = 1
  /\ Creations[1].cmd = <<"gh repo create ", "o", "/", "a", " ", "--public">>
  /\ repoUrl = <<"git@github.com:", "o", "/", "a", ".git">>

Resolved == projectName # NULL
StoredVisibility == IF Has(config, K_VIS) THEN Get(config, K_VIS) ELSE UNDEFINED
StoredOrg == IF Has(config, K_ORG) THEN Get(config, K_ORG) ELSE UNDEFINED

EffectiveValues ==
  Resolved
    => /\ options.public => isPublic
       /\ (options.private /\ ~options.public) => ~isPublic
       /\ (~options.public /\ ~options.private)
            => (isPublic <=> StoredVisibility = <<"public">>)
       /\ options.org # NULL => org = options.org
       /\ options.org = NULL => org = StoredOrg
       /\ \A i \in 1..Len(log) :
            /\ log[i].op = "gh repo view"
                 => log[i].cmd =
                      <<"gh repo view ">>
                        \o (IF OrgGiven THEN (org \o <<"/">>) \o projectName
                            ELSE projectName)
            /\ log[i].op = "gh repo create"
                 => log[i].cmd =
                      (<<"gh repo create ">>
                         \o (IF OrgGiven THEN org ELSE <<"u">>)
                         \o <<"/">> \o projectName)
                        \o <<" ", IF isPublic THEN "--public" ELSE "--private">>

\* C22: once resolved, the visibility is public with --public, private with
\* --private alone, and otherwise public exactly when the stored
\* defaultVisibility is 'public'; the organization is the --org value when
\* given and the stored defaultOrg otherwise, the personal account when
\* neither is there; both stay what they are for the rest of the run, and
\* the existence check and the creation command are built from them.
C22_EffectiveOptions ==
  /\ []EffectiveValues
  /\ [][Resolved => (isPublic' = isPublic /\ org' = org /\ options' = options
                     /\ config' = config /\ projectName' = projectName)]_vars

C22_Witness ==
  /\ pc = "done"
  /\ ~options.public
  /\ ~options.private
  /\ options.org = NULL
  /\ Get(config, K_VIS) = PUBLIC
  /\ Get(config, K_ORG) = <<"p">>
  /\ isPublic
  /\ org = <<"p">>
  /\ \E i \in 1..Len(log) :
       log[i].cmd = <<"gh repo create ", "p", "/", "a", " ", "--public">>

\* ------------------------------------------------------------------------
\* Properties of the forced reuse of a directory (Spec)
\* ------------------------------------------------------------------------
ForcedReuse ==
  options.here /\ options.force /\ (world0.git \/ world0.readme # NULL)

Done(op) == \E i \in 1..Len(log) : log[i].op = op /\ log[i].ok
Ran(op) == \E i \in 1..Len(log) : log[i].op = op
DoneBefore(op, i) == \E j \in 1..(i - 1) : log[j].op = op /\ log[j].ok

\* C23: with --here and --force in a directory that holds .git or
\* README.md the run does not end at the safety checks; README.md is
\* overwritten with the seed content; git init is not run when .git was
\* there and is run before anything else of git when it was not; the
\* branch is renamed to main before the staging and the commit in both
\* cases.
C23_ForcedReuse ==
  ForcedReuse
    => /\ failedAt # "safety"
       /\ Done("writeFile README.md")
            => world.readme = <<"# ">> \o projectName \o <<"\n">>
       /\ world0.git => ~Ran("git init")
       /\ \A i \in 1..Len(log) :
            /\ (log[i].op = "git branch -M" /\ ~world0.git)
                 => DoneBefore("git init", i)
            /\ log[i].op = "git branch -M"
                 => (log[i].cmd = <<"git branch -M ", "main">>
                     /\ DoneBefore("writeFile README.md", i))
            /\ log[i].op \in {"git add", "git commit"}
                 => DoneBefore("git branch -M", i)
       /\ Done("git branch -M") => world.branch = "main"
       /\ pc \in {"report", "done"} => Done("git commit")

C23_Witness ==
  /\ pc = "done"
  /\ options.here
  /\ options.force
  /\ world0.git
  /\ world0.branch = "master"
  /\ world0.readme = <<"old">>
  /\ world.readme = <<"# ", "a", "\n">>
  /\ ~Ran("git init")
  /\ world.branch = "main"

\* ------------------------------------------------------------------------
\* Properties of the recorded identity path (SpecS)
\* ------------------------------------------------------------------------
IdentityLinesOf(i) ==
  { j \in BlockOf(i) :
      IsKeywordLine(j, {"IdentityFile", "identityfile", "IDENTITYFILE"}) }

LastOf(S) == CHOOSE j \in S : \A k \in S : k <= j

\* the path with a leading '~' replaced by the home directory
ExpandLeadingTilde(path) ==
  IF path # <<>> /\ path[1] = "~" THEN <<"/home/u">> \o Tail(path) ELSE path

\* C24: the identity file of an entry is the path of the last IdentityFile
\* line of its block with only a leading '~' replaced by the home
\* directory, a path that does not start with '~' unchanged, and absent
\* when the block has no IdentityFile line.
C24_IdentityPath ==
  sPc = "done"
    => \A i \in GitHubBlocks :
         sOut[RankOf(i)].identityFile =
           (IF IdentityLinesOf(i) = {} THEN NULL
            ELSE ExpandLeadingTilde(ValueOf(LastOf(IdentityLinesOf(i)))))

\* ------------------------------------------------------------------------
\* Properties of the race on the repository name (Spec)
\* ------------------------------------------------------------------------
\* another party has created a repository of the same full name during the
\* run; that happens only after the existence check has passed
TakenMeanwhile == ~remote0 /\ remoteTaken /\ world.remoteRepo = NULL

\* C25: when another party creates the repository between the existence
\* check and the creation step, the run does not fail at preflight, the
\* creation command fails and the run ends there with status 1; no remote
\* is added, nothing is pushed, and the directory, README.md and the
\* initial commit stay.
C25_RaceFailsAtCreation ==
  TakenMeanwhile
    => /\ \E i \in 1..Len(log) : log[i].op = "gh repo view" /\ ~log[i].ok
       /\ failedAt # "preflight"
       /\ ~Done("gh repo create")
       /\ ~Ran("git remote add")
       /\ ~Ran("git push")
       /\ world.origin = NULL
       /\ ~world.pushed
       /\ pc \notin {"addRemote", "select", "prompt", "push", "report", "done"}
       /\ Ran("gh repo create")
            => /\ pc = "failed"
               /\ failedAt = "create"
               /\ exitCode = 1
               /\ world.dir
               /\ world.readme = <<"# ">> \o projectName \o <<"\n">>
               /\ world.commits = <<"Initial commit">>

C25_Witness ==
  /\ TakenMeanwhile
  /\ Ran("gh repo create")
  /\ failedAt = "create"
  /\ exitCode = 1
  /\ world.commits = <<"Initial commit">>
  /\ world.readme = <<"# ", "a", "\n">>
  /\ world.origin = NULL

\* ------------------------------------------------------------------------
\* Termination of a run and its progress indicators (SpecLive)
\* ------------------------------------------------------------------------
Terminal == pc \in {"done", "failed", "crashed"}

NothingTwice ==
  \A i \in 1..Len(log) : \A j \in 1..Len(log) :
    i < j => /\ ~(log[i].op = log[j].op /\ log[i].step = log[j].step)
             /\ StepIndex(log[i].step) <= StepIndex(log[j].step)

IndicatorsResolved ==
  /\ \A i \in 1..Len(spin) : \A j \in 1..Len(spin) :
       i < j => (spin[i].name # spin[j].name /\ spin[i].state = "succeeded")
  /\ Terminal => \A i \in 1..Len(spin) : spin[i].state \in {"succeeded", "failed"}
  /\ pc = "done" => \A i \in 1..Len(spin) : spin[i].state = "succeeded"
  /\ (pc = "failed" /\ failedAt \notin {"validate", "safety"})
       => (spin # <<>> /\ spin[Len(spin)].state = "failed")

OneOutcome ==
  /\ pc = "done" => (Done("git push") /\ failedAt = "none")
  /\ pc = "failed" => (failedAt # "none" /\ exitCode = 1 /\ ~Done("git push"))
  /\ exitCode # -1 <=> Terminal

\* C26: every run ends, in one terminal state that it does not leave:
\* success after the push, or failure at the first step that fails; no
\* command of a step is run twice and no step is gone back to; an
\* indicator is started once, the ones before it have succeeded, and when
\* the run has ended none is still spinning.
C26_RunsTerminate ==
  /\ <>Terminal
  /\ [](NothingTwice /\ IndicatorsResolved /\ OneOutcome)
  /\ [][Terminal => (pc' = pc /\ log' = log /\ spin' = spin /\ world' = world
                     /\ exitCode' = exitCode /\ failedAt' = failedAt)]_vars

C26_Witness ==
  /\ pc = "done"
  /\ ~options.here
  /\ Len(spin) = 8
  /\ \A i \in 1..Len(spin) : spin[i].state = "succeeded"
  /\ spin[1].name = "preflightSpinner"
  /\ spin[8].name = "pushSpinner"
  /\ Len(Prompts) = 1

====
